---- MODULE Spec2Model ----
(***************************************************************************)
(* Verification model of the WebGPU glTF viewer: node hierarchy, keyframe  *)
(* animation, skinning, the per-frame update and the draw walk.            *)
(*                                                                         *)
(* Numbers.  Floats are modelled by integers, on inputs for which every    *)
(* float operation of the code is exact.  Times are integer ticks.  An     *)
(* interpolation factor is the exact fraction <<num, den>>.                *)
(*                                                                         *)
(* Geometry.  A vec3 is modelled by its (x, z) components, a quaternion by *)
(* its (y, w) components (a rotation about the Y axis), and a mat4 by the  *)
(* 3x3 block of rows/columns x, z, w of the 4x4 matrix, written row-major  *)
(* as m[row][col].  For translations and scales in the XZ plane and        *)
(* rotations about Y the 4x4 matrix is the direct sum of this block and    *)
(* the constant y entry 1, so multiply, invert and transpose act on the    *)
(* block exactly as glMatrix acts on the 4x4 matrix.                       *)
(*                                                                         *)
(* Indices.  JavaScript arrays are 0-based; sequences here are 1-based, so *)
(* every index of the source appears shifted by one, and 0 stands for an   *)
(* index that is undefined in the document.                                *)
(***************************************************************************)
EXTENDS Integers, Sequences, FiniteSets, TLC

(***************************************************************************)
(* Bounds of the model                                                     *)
(***************************************************************************)
MaxNow == 6
MaxPending == 2
MaxKeyTime == 4
MaxKeys == 3
MaxJointCount == 3
MaxCapacity == 3
MaxClips == 3
MaxCount == 2
MaxConfigs == 3
MaxStack == 4

(***************************************************************************)
(* glMatrix: vectors, quaternions, matrices                                *)
(***************************************************************************)
Undefined == 0

Vec3FromValues(x, z) == <<x, z>>

QuatFromValues(y, w) == <<y, w>>

Mat4Create == <<<<1, 0, 0>>, <<0, 1, 0>>, <<0, 0, 1>>>>


Mat4Multiply(a, b) ==
    [i \in 1..3 |-> [j \in 1..3 |->
        a[i][1] * b[1][j] + a[i][2] * b[2][j] + a[i][3] * b[3][j]]]

Mat4Transpose(a) == [i \in 1..3 |-> [j \in 1..3 |-> a[j][i]]]

Cyc(i) == ((i - 1) % 3) + 1

Mat4Determinant(a) ==
      a[1][1] * (a[2][2] * a[3][3] - a[2][3] * a[3][2])
    - a[1][2] * (a[2][1] * a[3][3] - a[2][3] * a[3][1])
    + a[1][3] * (a[2][1] * a[3][2] - a[2][2] * a[3][1])

\* adjugate: entry (i, j) is the cofactor of entry (j, i)
Mat4Adjugate(a) ==
    [i \in 1..3 |-> [j \in 1..3 |->
          a[Cyc(j + 1)][Cyc(i + 1)] * a[Cyc(j + 2)][Cyc(i + 2)]
        - a[Cyc(j + 1)][Cyc(i + 2)] * a[Cyc(j + 2)][Cyc(i + 1)]]]

\* A matrix with fractional entries is the pair (integer matrix, divisor).
\* The normal matrix is the only such matrix of the program.
RatMat(num, den) == [num |-> num, den |-> den]

RatIdentity == RatMat(Mat4Create, 1)

\* mat4.invert(out, a): writes adj(a) / det(a) into out; when det = 0 it
\* returns null and leaves out as it was.
Mat4Invert(out, a) ==
    IF Mat4Determinant(a) = 0 THEN out
    ELSE RatMat(Mat4Adjugate(a), Mat4Determinant(a))

RatTranspose(r) == RatMat(Mat4Transpose(r.num), r.den)

\* mat4.fromRotationTranslationScale(out, q, v, s) for q = (0, y, 0, w)
Mat4FromRotationTranslationScale(q, v, s) ==
    LET y  == q[1]
        w  == q[2]
        yy == y * (y + y)
        wy == w * (y + y)
    IN  << <<(1 - yy) * s[1], wy * s[2],       v[1]>>,
           <<(0 - wy) * s[1], (1 - yy) * s[2], v[2]>>,
           <<0,               0,               1>> >>

Abs(x) == IF x < 0 THEN 0 - x ELSE x

\* mat4.getTranslation / getScaling / getRotation on the matrices a node may
\* be built from: axis-aligned ones, [[a, 0, tx], [0, c, tz], [0, 0, 1]].
\* With a and c of the same sign the matrix is a scale, turned or not by 180
\* degrees about Y.  With a and c of opposite signs it mirrors one axis: the
\* trace of its rotation block, normalised by the scaling as glMatrix 3
\* does, is 1, and getRotation takes its first branch and yields
\* x = y = z = 0 and w = sqrt(2) / 2, which is no unit quaternion; such a
\* rotation is written <<0, 0>>, its w being no integer, and recomposes as
\* every quaternion with y = 0 does.
Mat4GetTranslation(m) == <<m[1][3], m[2][3]>>

Mat4GetScaling(m) == <<Abs(m[1][1]), Abs(m[2][2])>>

Mat4GetRotation(m) ==
    IF m[1][1] > 0 /\ m[2][2] > 0 THEN QuatFromValues(0, 1)
    ELSE IF m[1][1] < 0 /\ m[2][2] < 0 THEN QuatFromValues(1, 0)
    ELSE QuatFromValues(0, 0)

\* vec3.lerp(out, a, b, t) with t = f[1] / f[2]: a + t * (b - a)
Vec3Lerp(a, b, f) ==
    [i \in 1..2 |-> a[i] + (f[1] * (b[i] - a[i])) \div f[2]]

QuatDot(a, b) == a[1] * b[1] + a[2] * b[2]

\* quat.slerp(out, a, b, t) on unit quaternions: b is negated when the dot
\* product is negative; parallel inputs take the linear branch
\* (1 - t) * a + t * b, and at t = 0 the spherical branch yields a.
QuatSlerp(a, b, f) ==
    LET cosom == QuatDot(a, b)
        b2    == IF cosom < 0 THEN [i \in 1..2 |-> 0 - b[i]] ELSE b
    IN  IF Abs(cosom) = 1
        THEN [i \in 1..2 |-> ((f[2] - f[1]) * a[i] + f[1] * b2[i]) \div f[2]]
        ELSE IF f[1] = 0 THEN a
        ELSE <<"sin", a, b2, f>>

\* mat4.translate(out, a, v): a * T(v)
Mat4Translate(a, v) ==
    Mat4Multiply(a, <<<<1, 0, v[1]>>, <<0, 1, v[2]>>, <<0, 0, 1>>>>)

\* mat4.rotateY(out, a, rad) for rad a number of quarter turns: a * Ry(rad)
CosQ(k) == <<1, 0, 0 - 1, 0>>[(k % 4) + 1]

SinQ(k) == <<0, 1, 0, 0 - 1>>[(k % 4) + 1]

Mat4RotateY(a, k) ==
    Mat4Multiply(a, << <<CosQ(k),     SinQ(k), 0>>,
                       <<0 - SinQ(k), CosQ(k), 0>>,
                       <<0,           0,       1>> >>)

\* mat4.scale(out, a, v): a * S(v)
Mat4Scale(a, v) ==
    Mat4Multiply(a, <<<<v[1], 0, 0>>, <<0, v[2], 0>>, <<0, 0, 1>>>>)

\* the 16 floats of a mat4 in glMatrix's column-major order (axes x, y, z, w)
Mat4Array(m) ==
    << m[1][1], 0, m[2][1], m[3][1],
       0,       1, 0,       0,
       m[1][2], 0, m[2][2], m[3][2],
       m[1][3], 0, m[2][3], m[3][3] >>

(***************************************************************************)
(* Node and NodeHierarchy                                                  *)
(***************************************************************************)
NoMatrix == <<>>

\* new Node(options) followed by the matrix decomposition of Node.fromGLTF.
\* nodeData: [translation, rotation, scale, matrix, mesh, skin, children];
\* an absent translation / rotation / scale / matrix is the empty tuple, an
\* absent mesh or skin is Undefined (skinIndex null).
NodeFromGLTF(nodeData) ==
    LET node == [
            translation |-> IF nodeData.translation # <<>>
                            THEN nodeData.translation
                            ELSE Vec3FromValues(0, 0),
            rotation    |-> IF nodeData.rotation # <<>>
                            THEN nodeData.rotation
                            ELSE QuatFromValues(0, 1),
            scale       |-> IF nodeData.scale # <<>>
                            THEN nodeData.scale
                            ELSE Vec3FromValues(1, 1),
            meshIndex   |-> nodeData.mesh,
            skinIndex   |-> nodeData.skin,
            children    |-> nodeData.children,
            matrix      |-> Mat4Create,
            worldMatrix |-> Mat4Create,
            hasOriginalMatrix |-> nodeData.matrix # NoMatrix,
            primitiveInstances |-> <<>> ]
    IN  IF nodeData.matrix # NoMatrix
        THEN [node EXCEPT !.matrix      = nodeData.matrix,
                          !.translation = Mat4GetTranslation(nodeData.matrix),
                          !.rotation    = Mat4GetRotation(nodeData.matrix),
                          !.scale       = Mat4GetScaling(nodeData.matrix)]
        ELSE node

NodeUpdateLocalMatrix(node) ==
    [node EXCEPT !.matrix = Mat4FromRotationTranslationScale(
                                node.rotation, node.translation, node.scale)]

\* mutant: the product taken in the wrong order
NodeUpdateWorldMatrixSwapped(node, parentMatrix) ==
    LET n1 == NodeUpdateLocalMatrix(node)
    IN  [n1 EXCEPT !.worldMatrix = Mat4Multiply(n1.matrix, parentMatrix)]

NodeUpdateWorldMatrix(node, parentMatrix) ==
    LET n1 == NodeUpdateLocalMatrix(node)
    IN  [n1 EXCEPT !.worldMatrix = Mat4Multiply(parentMatrix, n1.matrix)]

NodeHasMesh(node) == node.meshIndex # Undefined

\* NodeHierarchy.fromGLTF: the node array and the root list of the scene
NodeHierarchyFromGLTF(gltf) ==
    [nodes     |-> [i \in 1..Len(gltf.nodes) |-> NodeFromGLTF(gltf.nodes[i])],
     rootNodes |-> gltf.sceneNodes]

RECURSIVE UpdateRecursive(_, _, _, _)
RECURSIVE UpdateChildren(_, _, _, _)

\* updateRecursive(nodeIndex, parentMatrix): the node first, then its
\* children in declared order, each with the node's new world matrix
UpdateRecursive(nodes, nodeIndex, parentMatrix, forceUpdate) ==
    LET node == nodes[nodeIndex]
        upd  == IF forceUpdate \/ ~node.hasOriginalMatrix
                THEN NodeUpdateWorldMatrix(node, parentMatrix)
                ELSE [node EXCEPT !.worldMatrix =
                                      Mat4Multiply(parentMatrix, node.matrix)]
    IN  UpdateChildren([nodes EXCEPT ![nodeIndex] = upd], nodeIndex, 1,
                       forceUpdate)

UpdateChildren(nodes, nodeIndex, k, forceUpdate) ==
    IF k > Len(nodes[nodeIndex].children) THEN nodes
    ELSE UpdateChildren(
             UpdateRecursive(nodes, nodes[nodeIndex].children[k],
                             nodes[nodeIndex].worldMatrix, forceUpdate),
             nodeIndex, k + 1, forceUpdate)

RECURSIVE UpdateRoots(_, _, _, _, _)

UpdateRoots(nodes, rootNodes, k, baseTransform, forceUpdate) ==
    IF k > Len(rootNodes) THEN nodes
    ELSE UpdateRoots(
             UpdateRecursive(nodes, rootNodes[k], baseTransform, forceUpdate),
             rootNodes, k + 1, baseTransform, forceUpdate)

\* NodeHierarchy.updateWorldMatrices(baseTransform, forceUpdate)
UpdateWorldMatrices(nodes, rootNodes, baseTransform, forceUpdate) ==
    UpdateRoots(nodes, rootNodes, 1, baseTransform, forceUpdate)

(***************************************************************************)
(* Skin and SkinManager                                                    *)
(***************************************************************************)
\* new Skin(joints, inverseBindMatrices)
NewSkin(joints, inverseBindMatrices) ==
    [joints              |-> joints,
     inverseBindMatrices |-> inverseBindMatrices,
     jointMatrices       |-> [i \in 1..Len(joints) |-> Mat4Create]]

\* Skin.fromGLTF: skinData.inverseBindMatrices is the accessor's matrices,
\* or the empty tuple when the skin declares none
NoAccessor == <<>>

SkinFromGLTF(skinData) ==
    NewSkin(skinData.joints,
            IF skinData.inverseBindMatrices # NoAccessor
            THEN [i \in 1..Len(skinData.joints) |->
                      skinData.inverseBindMatrices[i]]
            ELSE [i \in 1..Len(skinData.joints) |-> Mat4Create])

\* mutant: inverse bind matrix times world matrix
SkinUpdateMatricesSwapped(skin, nodes) ==
    [skin EXCEPT !.jointMatrices =
        [i \in 1..Len(skin.joints) |->
            Mat4Multiply(skin.inverseBindMatrices[i],
                         nodes[skin.joints[i]].worldMatrix)]]

\* Skin.updateMatrices(nodes)
SkinUpdateMatrices(skin, nodes) ==
    [skin EXCEPT !.jointMatrices =
        [i \in 1..Len(skin.joints) |->
            Mat4Multiply(nodes[skin.joints[i]].worldMatrix,
                         skin.inverseBindMatrices[i])]]

Min(a, b) == IF a < b THEN a ELSE b

\* mutant: the copy loop stops one joint early
SkinGetMatricesArrayShort(skin, maxJoints) ==
    LET numJoints == Min(Len(skin.jointMatrices), maxJoints) - 1
    IN  [k \in 1..(maxJoints * 16) |->
            IF (k - 1) \div 16 < numJoints
            THEN Mat4Array(skin.jointMatrices[((k - 1) \div 16) + 1])
                     [((k - 1) % 16) + 1]
            ELSE 0]

\* Skin.getMatricesArray(maxJoints): a zero-filled Float32Array of
\* maxJoints * 16 floats with the first min(count, maxJoints) matrices copied
SkinGetMatricesArray(skin, maxJoints) ==
    LET numJoints == Min(Len(skin.jointMatrices), maxJoints)
    IN  [k \in 1..(maxJoints * 16) |->
            IF (k - 1) \div 16 < numJoints
            THEN Mat4Array(skin.jointMatrices[((k - 1) \div 16) + 1])
                     [((k - 1) % 16) + 1]
            ELSE 0]

\* SkinManager.get(index): skins[index] || null.  A skin is referred to by
\* its position in skins; NullSkin is the null reference.
NullSkin == 0

SkinManagerGet(skins, index) ==
    IF index \in 1..Len(skins) THEN index ELSE NullSkin

\* SkinManager.updateAll(nodes)
SkinManagerUpdateAll(skins, nodes) ==
    [s \in 1..Len(skins) |-> SkinUpdateMatrices(skins[s], nodes)]

(***************************************************************************)
(* Animation, AnimationChannel, AnimationSystem                            *)
(***************************************************************************)
\* the value of time % 0, which compares false with every number
NaN == 0 - 1

ZeroFactor == <<0, 1>>

KeyframeResult(prevIndex, nextIndex, factor) ==
    [prevIndex |-> prevIndex, nextIndex |-> nextIndex, factor |-> factor]

\* mutant: the bracketing test excludes the lower and includes the upper
\* keyframe time
FindKeyframesUpperInclusive(times, t) ==
    IF Len(times) = 0 THEN KeyframeResult(1, 1, ZeroFactor)
    ELSE IF t # NaN /\ t <= times[1] THEN KeyframeResult(1, 1, ZeroFactor)
    ELSE IF t # NaN /\ t >= times[Len(times)]
         THEN KeyframeResult(Len(times), Len(times), ZeroFactor)
    ELSE LET hits == {i \in 1..(Len(times) - 1) :
                         t # NaN /\ t > times[i] /\ t <= times[i + 1]}
         IN  IF hits # {}
             THEN LET i == CHOOSE h \in hits : \A g \in hits : h <= g
                  IN  KeyframeResult(i, i + 1,
                          <<t - times[i], times[i + 1] - times[i]>>)
             ELSE KeyframeResult(1, 1, ZeroFactor)

\* AnimationChannel._findKeyframes(t)
FindKeyframes(times, t) ==
    IF Len(times) = 0 THEN KeyframeResult(1, 1, ZeroFactor)
    ELSE IF t # NaN /\ t <= times[1] THEN KeyframeResult(1, 1, ZeroFactor)
    ELSE IF t # NaN /\ t >= times[Len(times)]
         THEN KeyframeResult(Len(times), Len(times), ZeroFactor)
    ELSE LET hits == {i \in 1..(Len(times) - 1) :
                         t # NaN /\ t >= times[i] /\ t < times[i + 1]}
         IN  IF hits # {}
             THEN LET i == CHOOSE h \in hits : \A g \in hits : h <= g
                  IN  KeyframeResult(i, i + 1,
                          <<t - times[i], times[i + 1] - times[i]>>)
             ELSE KeyframeResult(1, 1, ZeroFactor)

\* mutant: a translation channel writes the scale as well
ChannelApplyBoth(channel, node, t) ==
    LET kf   == FindKeyframes(channel.times, t)
        prev == channel.values[kf.prevIndex]
        next == channel.values[kf.nextIndex]
    IN  CASE channel.targetPath = "rotation" ->
                 [node EXCEPT !.rotation = QuatSlerp(prev, next, kf.factor)]
          [] channel.targetPath = "translation" ->
                 [node EXCEPT !.translation = Vec3Lerp(prev, next, kf.factor),
                              !.scale = Vec3Lerp(prev, next, kf.factor)]
          [] channel.targetPath = "scale" ->
                 [node EXCEPT !.scale = Vec3Lerp(prev, next, kf.factor)]
          [] OTHER -> node

\* AnimationChannel.apply(node, t); values[k] is the k-th keyframe value
\* (values.subarray(k * 3, k * 3 + 3), or k * 4 for a rotation)
ChannelApply(channel, node, t) ==
    LET kf   == FindKeyframes(channel.times, t)
        prev == channel.values[kf.prevIndex]
        next == channel.values[kf.nextIndex]
    IN  CASE channel.targetPath = "rotation" ->
                 [node EXCEPT !.rotation = QuatSlerp(prev, next, kf.factor)]
          [] channel.targetPath = "translation" ->
                 [node EXCEPT !.translation = Vec3Lerp(prev, next, kf.factor)]
          [] channel.targetPath = "scale" ->
                 [node EXCEPT !.scale = Vec3Lerp(prev, next, kf.factor)]
          [] OTHER -> node

MaxOf(a, b) == IF a > b THEN a ELSE b

RECURSIVE MaxEndTime(_, _)

\* the maxTime loop of Animation.fromGLTF, from channel k on
MaxEndTime(channels, k) ==
    IF k > Len(channels) THEN 0
    ELSE IF Len(channels[k].times) > 0
         THEN MaxOf(channels[k].times[Len(channels[k].times)],
                    MaxEndTime(channels, k + 1))
         ELSE MaxEndTime(channels, k + 1)

\* Animation.fromGLTF(animData): id stands for the identity of the object
\* created; animData.channels[k] already holds its sampler's input and
\* output arrays and interpolation
AnimationFromGLTF(animData, id) ==
    [id       |-> id,
     name     |-> IF animData.name # "" THEN animData.name ELSE "Unnamed",
     channels |-> animData.channels,
     duration |-> MaxEndTime(animData.channels, 1)]

\* mutant: the time is not wrapped
WrapTimeNone(time, duration) == time

\* const t = time % this.duration
WrapTime(time, duration) ==
    IF duration = 0 THEN NaN ELSE time % duration

RECURSIVE ApplyChannelsBreak(_, _, _, _)
RECURSIVE ApplyChannels(_, _, _, _)

\* mutant: a channel without a node ends the loop
ApplyChannelsBreak(channels, k, nodes, t) ==
    IF k > Len(channels) THEN nodes
    ELSE IF channels[k].targetNode \notin 1..Len(nodes)
         THEN nodes
         ELSE ApplyChannelsBreak(channels, k + 1,
                  [nodes EXCEPT ![channels[k].targetNode] =
                       ChannelApply(channels[k], @, t)],
                  t)

\* the channel loop of Animation.update, from channel k on
ApplyChannels(channels, k, nodes, t) ==
    IF k > Len(channels) THEN nodes
    ELSE IF channels[k].targetNode \notin 1..Len(nodes)
         THEN ApplyChannels(channels, k + 1, nodes, t)
         ELSE ApplyChannels(channels, k + 1,
                  [nodes EXCEPT ![channels[k].targetNode] =
                       ChannelApply(channels[k], @, t)],
                  t)

\* Animation.update(nodes, time)
AnimationUpdate(animation, nodes, time) ==
    ApplyChannels(animation.channels, 1, nodes,
                  WrapTime(time, animation.duration))

\* the null reference of AnimationSystem.currentAnimation
NullAnimation == [id |-> 0, name |-> "", channels |-> <<>>, duration |-> 0]

\* new AnimationSystem()
NewAnimationSystem == [animations |-> <<>>, currentAnimation |-> NullAnimation]

\* AnimationSystem.add(animation)
AnimationSystemAdd(sys, animation) ==
    [sys EXCEPT !.animations = Append(@, animation)]

\* AnimationSystem.findByName(name): the first clip of that name, or null
FindByName(sys, name) ==
    LET hits == {i \in 1..Len(sys.animations) : sys.animations[i].name = name}
    IN  IF hits = {} THEN NullAnimation
        ELSE sys.animations[CHOOSE h \in hits : \A g \in hits : h <= g]

\* AnimationSystem.setCurrent(animation) with a string argument
SetCurrentByName(sys, name) ==
    [sys EXCEPT !.currentAnimation = FindByName(sys, name)]

\* AnimationSystem.setCurrent(animation) with an Animation argument
SetCurrentByObject(sys, animation) ==
    [sys EXCEPT !.currentAnimation = animation]

\* mutant: the preferred name is ignored
SetDefaultAnimationFirst(sys, preferredName) ==
    IF Len(sys.animations) > 0
    THEN [sys EXCEPT !.currentAnimation = sys.animations[1]]
    ELSE sys

\* AnimationSystem.setDefaultAnimation(preferredName); "" is no name given
SetDefaultAnimation(sys, preferredName) ==
    IF preferredName # "" /\ FindByName(sys, preferredName) # NullAnimation
    THEN [sys EXCEPT !.currentAnimation = FindByName(sys, preferredName)]
    ELSE IF Len(sys.animations) > 0
         THEN [sys EXCEPT !.currentAnimation = sys.animations[1]]
         ELSE sys

RECURSIVE UpdateEveryAnimation(_, _, _, _)

UpdateEveryAnimation(animations, k, nodes, time) ==
    IF k > Len(animations) THEN nodes
    ELSE UpdateEveryAnimation(animations, k + 1,
                              AnimationUpdate(animations[k], nodes, time), time)

\* mutant: every clip of the system is applied, the active one last
AnimationSystemUpdateAll(sys, nodes, time) ==
    IF sys.currentAnimation # NullAnimation
    THEN AnimationUpdate(sys.currentAnimation,
                         UpdateEveryAnimation(sys.animations, 1, nodes, time),
                         time)
    ELSE nodes

\* AnimationSystem.update(nodes, time)
AnimationSystemUpdate(sys, nodes, time) ==
    IF sys.currentAnimation # NullAnimation
    THEN AnimationUpdate(sys.currentAnimation, nodes, time)
    ELSE nodes

(***************************************************************************)
(* Model and ModelLoader                                                   *)
(***************************************************************************)
\* Model.applyConfig(config): translate, rotate about Y (rotation[1], in
\* quarter turns; rotation[0] and rotation[2] are 0), uniform scale
ApplyConfig(config) ==
    Mat4Scale(
        Mat4RotateY(Mat4Translate(Mat4Create, config.position),
                    config.rotation),
        <<config.scale, config.scale>>)

\* MeshFactory: a primitive of the document becomes a Primitive whose
\* hasSkinning flag is set when both JOINTS_0 and WEIGHTS_0 are present
PrimitiveFromGLTF(primData) ==
    [hasSkinning |-> primData.joints0 /\ primData.weights0]

MeshFromGLTF(meshData) ==
    [primitives |-> [k \in 1..Len(meshData) |-> PrimitiveFromGLTF(meshData[k])]]

MAX_JOINTS == 180

UNIFORM_BUFFER_SIZE == 304

JOINT_MATRICES_BUFFER_SIZE == MAX_JOINTS * 64

\* gpu.createBuffer({size, usage}): a buffer is known by its size in bytes
CreateBuffer(size) == [size |-> size]

\* PrimitiveInstanceFactory.create(primitive): each instance gets a uniform
\* buffer and a joint matrix buffer of its own
CreateInstance(primitive) ==
    [primitive           |-> primitive,
     uniformBuffer       |-> CreateBuffer(UNIFORM_BUFFER_SIZE),
     jointMatricesBuffer |-> CreateBuffer(JOINT_MATRICES_BUFFER_SIZE)]

\* ModelLoader._createNodeResources(model)
CreateNodeResources(nodes, meshes) ==
    [i \in 1..Len(nodes) |->
        IF nodes[i].meshIndex # Undefined
        THEN [nodes[i] EXCEPT !.primitiveInstances =
                 [k \in 1..Len(meshes[nodes[i].meshIndex].primitives) |->
                     CreateInstance(meshes[nodes[i].meshIndex].primitives[k])]]
        ELSE nodes[i]]

RECURSIVE AddAnimations(_, _, _)

AddAnimations(sys, animations, k) ==
    IF k > Len(animations) THEN sys
    ELSE AddAnimations(
             AnimationSystemAdd(sys, AnimationFromGLTF(animations[k], k)),
             animations, k + 1)

\* ModelLoader._loadAnimations(model, gltf, buffers, config); gltf.animations
\* absent is the document field hasAnimations = FALSE
LoadAnimations(gltf, config) ==
    IF ~gltf.hasAnimations THEN NewAnimationSystem
    ELSE SetDefaultAnimation(
             AddAnimations(NewAnimationSystem, gltf.animations, 1),
             config.preferredAnimation)

\* ModelLoader.load(config), once the document has been fetched and parsed
LoadModel(config, gltf) ==
    LET hierarchy == NodeHierarchyFromGLTF(gltf)
        meshes    == [i \in 1..Len(gltf.meshes) |-> MeshFromGLTF(gltf.meshes[i])]
    IN  [name            |-> config.name,
         nodes           |-> CreateNodeResources(hierarchy.nodes, meshes),
         rootNodes       |-> hierarchy.rootNodes,
         meshes          |-> meshes,
         skins           |-> [i \in 1..Len(gltf.skins) |->
                                 SkinFromGLTF(gltf.skins[i])],
         animationSystem |-> LoadAnimations(gltf, config),
         baseTransform   |-> ApplyConfig(config)]

\* Model.updateAnimation(time)
ModelUpdateAnimation(model, time) ==
    [model EXCEPT !.nodes = AnimationSystemUpdate(model.animationSystem,
                                                  model.nodes, time)]

\* Model.updateWorldMatrices()
ModelUpdateWorldMatrices(model) ==
    [model EXCEPT !.nodes = UpdateWorldMatrices(model.nodes, model.rootNodes,
                                                model.baseTransform, TRUE)]

\* Model.updateSkinMatrices()
ModelUpdateSkinMatrices(model) ==
    [model EXCEPT !.skins = SkinManagerUpdateAll(model.skins, model.nodes)]

\* mutant: the skins are updated before the hierarchy
ModelUpdateSkinsFirst(model, time) ==
    ModelUpdateWorldMatrices(
        ModelUpdateSkinMatrices(
            ModelUpdateAnimation(model, time)))

\* Model.update(time): animation, then hierarchy, then skins
ModelUpdate(model, time) ==
    ModelUpdateSkinMatrices(
        ModelUpdateWorldMatrices(
            ModelUpdateAnimation(model, time)))

(***************************************************************************)
(* Renderer                                                                *)
(***************************************************************************)
\* Renderer._drawPrimitive(renderPass, instance, modelMatrix, skin): one
\* uniform write, the joint matrix write of a skinned draw, one draw call.
\* rs is the renderer's state during the pass: its normal matrix and the
\* draws recorded so far.  jointData keeps the matrices that
\* skin.getMatricesArray(MAX_JOINTS) copies into the array it uploads.
DrawPrimitive(rs, model, m, n, k, modelMatrix, skin) ==
    LET primitive == model.nodes[n].primitiveInstances[k].primitive
        skinned   == primitive.hasSkinning /\ skin # NullSkin
    IN  [rs EXCEPT !.draws = Append(@,
            [model        |-> m,
             node         |-> n,
             instance     |-> k,
             modelMatrix  |-> modelMatrix,
             normalMatrix |-> rs.normalMatrix,
             hasSkinning  |-> IF skinned THEN 1 ELSE 0,
             jointWrite   |-> skinned,
             jointData    |-> IF skinned
                              THEN SubSeq(model.skins[skin].jointMatrices, 1,
                                          Min(Len(model.skins[skin].jointMatrices),
                                              MAX_JOINTS))
                              ELSE <<>>])]

RECURSIVE DrawInstances(_, _, _, _, _, _, _)

DrawInstances(rs, model, m, n, k, modelMatrix, skin) ==
    IF k > Len(model.nodes[n].primitiveInstances) THEN rs
    ELSE DrawInstances(DrawPrimitive(rs, model, m, n, k, modelMatrix, skin),
                       model, m, n, k + 1, modelMatrix, skin)

\* the model matrix drawNode chooses for a mesh node
NodeModelMatrix(model, n) ==
    IF \E k \in 1..Len(model.meshes[model.nodes[n].meshIndex].primitives) :
           model.meshes[model.nodes[n].meshIndex].primitives[k].hasSkinning
    THEN Mat4Create
    ELSE model.nodes[n].worldMatrix

RECURSIVE DrawNode(_, _, _, _)
RECURSIVE DrawChildren(_, _, _, _, _)

\* drawNode(node) of Renderer._drawModel
DrawNode(rs, model, m, n) ==
    LET node == model.nodes[n]
        rs1  == IF node.meshIndex # Undefined
                THEN LET skin == IF node.skinIndex # Undefined
                                 THEN SkinManagerGet(model.skins, node.skinIndex)
                                 ELSE NullSkin
                         modelMatrix == NodeModelMatrix(model, n)
                         nm == RatTranspose(Mat4Invert(rs.normalMatrix,
                                                       modelMatrix))
                     IN  DrawInstances([rs EXCEPT !.normalMatrix = nm],
                                       model, m, n, 1, modelMatrix, skin)
                ELSE rs
    IN  DrawChildren(rs1, model, m, n, 1)

DrawChildren(rs, model, m, n, k) ==
    IF k > Len(model.nodes[n].children) THEN rs
    ELSE DrawChildren(DrawNode(rs, model, m, model.nodes[n].children[k]),
                      model, m, n, k + 1)

RECURSIVE DrawRootsReversed(_, _, _, _)

\* mutant: the roots are drawn from the last to the first
DrawRootsReversed(rs, model, m, k) ==
    IF k > Len(model.rootNodes) THEN rs
    ELSE DrawNode(DrawRootsReversed(rs, model, m, k + 1), model, m,
                  model.rootNodes[k])

RECURSIVE DrawRoots(_, _, _, _)

\* Renderer._drawModel(renderPass, model)
DrawRoots(rs, model, m, k) ==
    IF k > Len(model.rootNodes) THEN rs
    ELSE DrawRoots(DrawNode(rs, model, m, model.rootNodes[k]), model, m, k + 1)

DrawModel(rs, model, m) == DrawRoots(rs, model, m, 1)

RECURSIVE DrawModels(_, _, _)

DrawModels(rs, sceneModels, m) ==
    IF m > Len(sceneModels) THEN rs
    ELSE DrawModels(DrawModel(rs, sceneModels[m], m), sceneModels, m + 1)

\* Renderer.render(scene): the model part of the render pass, submitted at
\* the end; the result is the renderer's normal matrix and the frame's draws
Render(normalMatrix0, sceneModels) ==
    DrawModels([normalMatrix |-> normalMatrix0, draws |-> <<>>], sceneModels, 1)

(***************************************************************************)
(* Documents and configurations the scene is loaded from                   *)
(***************************************************************************)
RECURSIVE Factorial(_)

Factorial(n) == IF n <= 1 THEN 1 ELSE n * Factorial(n - 1)

\* Keyframe values are multiples of Q, so that every interpolated value is
\* an integer whatever the distance between two keyframe times.
Q == Factorial(MaxKeyTime)

HalfKeyTime == MaxKeyTime \div 2

NodeData(translation, rotation, scale, matrix, mesh, skin, children) ==
    [translation |-> translation, rotation |-> rotation, scale |-> scale,
     matrix |-> matrix, mesh |-> mesh, skin |-> skin, children |-> children]

Channel(targetNode, targetPath, times, values, interpolation) ==
    [targetNode |-> targetNode, targetPath |-> targetPath, times |-> times,
     values |-> values, interpolation |-> interpolation]

SkinnedPrimitive == [joints0 |-> TRUE, weights0 |-> TRUE]

RigidPrimitive == [joints0 |-> FALSE, weights0 |-> FALSE]

\* A rig: an armature root with a two-joint chain and a mesh node whose mesh
\* has a skinned and a non-skinned primitive.  Clip "Walk" moves joint 2 and
\* turns joint 3; clip "Run" scales joint 3, names a node that does not
\* exist, and moves the mesh node.
RigDocument(inverseBind) ==
    [nodes |-> <<
         NodeData(<<Q, 0>>, <<>>, <<>>, NoMatrix, Undefined, Undefined, <<2, 4>>),
         NodeData(<<0, Q>>, <<>>, <<2, 2>>, NoMatrix, Undefined, Undefined, <<3>>),
         NodeData(<<Q, Q>>, <<>>, <<>>, NoMatrix, Undefined, Undefined, <<>>),
         NodeData(<<0, 2 * Q>>, <<>>, <<>>, NoMatrix, 1, 1, <<>>) >>,
     sceneNodes |-> <<1>>,
     meshes |-> << <<SkinnedPrimitive, RigidPrimitive>> >>,
     skins |-> << [joints |-> <<2, 3>>, inverseBindMatrices |-> inverseBind] >>,
     hasAnimations |-> TRUE,
     animations |-> <<
         [name |-> "Walk",
          channels |-> <<
              Channel(2, "translation", <<0, HalfKeyTime, MaxKeyTime>>,
                      <<<<0, 0>>, <<Q, 0>>, <<0, Q>>>>, "LINEAR"),
              Channel(3, "rotation", <<0, MaxKeyTime>>,
                      <<<<1, 0>>, <<0 - 1, 0>>>>, "LINEAR"),
              Channel(4, "weights", <<0, MaxKeyTime>>,
                      <<<<Q, 0>>, <<0, Q>>>>, "LINEAR") >>],
         [name |-> "Run",
          channels |-> <<
              Channel(3, "scale", <<1, MaxKeyTime - 1>>,
                      <<<<Q, Q>>, <<0, 2 * Q>>>>, "LINEAR"),
              Channel(9, "translation", <<0, MaxKeyTime>>,
                      <<<<0, 0>>, <<Q, Q>>>>, "LINEAR"),
              Channel(4, "translation", <<0, 1>>,
                      <<<<0, 2 * Q>>, <<Q, 0>>>>, "LINEAR") >>] >>]

\* inverse-bind accessors: one matrix per joint, and one more than needed
InverseBindOfRig ==
    << <<<<1, 0, 0 - Q>>, <<0, 1, 0>>, <<0, 0, 1>>>>,
       <<<<2, 0, 0>>, <<0, 2, 0 - Q>>, <<0, 0, 1>>>>,
       <<<<3, 0, 0>>, <<0, 3, 0>>, <<0, 0, 1>>>> >>

\* A rigid scene with two roots.  Node 1 is built from a matrix (scale 2,
\* half turn about Y, translation) and carries a mesh; its child carries a
\* mesh of two primitives.  Node 4 (a camera, say) is in no scene.
RigidNodes ==
    << NodeData(<<>>, <<>>, <<>>,
                <<<<0 - 2, 0, Q>>, <<0, 0 - 2, 0>>, <<0, 0, 1>>>>,
                1, Undefined, <<2>>),
       NodeData(<<0, Q>>, <<1, 0>>, <<1, 3>>, NoMatrix, 2, Undefined, <<>>),
       NodeData(<<Q, Q>>, <<>>, <<>>, NoMatrix, 1, Undefined, <<>>),
       NodeData(<<2, 2>>, <<1, 0>>, <<>>, NoMatrix, Undefined, Undefined, <<>>) >>

RigidMeshes == << <<RigidPrimitive>>, <<RigidPrimitive, RigidPrimitive>> >>

\* clip "Spin" moves the matrix-built node 1 and shrinks node 2 to scale 0
SpinDocument ==
    [nodes |-> RigidNodes, sceneNodes |-> <<1, 3>>, meshes |-> RigidMeshes,
     skins |-> <<>>, hasAnimations |-> TRUE,
     animations |-> <<
         [name |-> "",
          channels |-> <<
              Channel(1, "translation", <<0, MaxKeyTime>>,
                      <<<<Q, 0>>, <<0, Q>>>>, "LINEAR"),
              Channel(2, "scale", <<0, HalfKeyTime>>,
                      <<<<Q, Q>>, <<0, 0>>>>, "STEP") >>] >>]

\* a document without an animations array
StaticDocument ==
    [nodes |-> RigidNodes, sceneNodes |-> <<1, 3>>, meshes |-> RigidMeshes,
     skins |-> <<>>, hasAnimations |-> FALSE, animations |-> <<>>]

\* a clip with a single keyframe at time 0: its duration is 0
PoseDocument ==
    [nodes |-> RigidNodes, sceneNodes |-> <<3, 1>>, meshes |-> RigidMeshes,
     skins |-> <<>>, hasAnimations |-> TRUE,
     animations |-> <<
         [name |-> "Pose",
          channels |-> <<
              Channel(3, "translation", <<0>>, <<<<2 * Q, 0>>>>, "LINEAR") >>] >>]

Config(name, position, rotation, scale, preferredAnimation) ==
    [name |-> name, position |-> position, rotation |-> rotation,
     scale |-> scale, preferredAnimation |-> preferredAnimation]

\* the (configuration, document) pairs a model of the scene is loaded from
Assets ==
    { <<Config("Fox", <<0, 0>>, 1, 2, "Run"), RigDocument(InverseBindOfRig)>>,
      <<Config("Rex", <<0, 3>>, 1, 1, ""), RigDocument(NoAccessor)>>,
      <<Config("CesiumMilkTruck", <<0, 0 - 2>>, 1, 2, ""), SpinDocument>>,
      <<Config("Static", <<1, 0>>, 2, 1, "Run"), StaticDocument>>,
      <<Config("Pose", <<0, 0>>, 0, 1, "Missing"), PoseDocument>> }

(***************************************************************************)
(* Application: the scene and the render loop                              *)
(***************************************************************************)
VARIABLES
    models,         \* scene.models
    loadedFrom,     \* the (configuration, document) each model was loaded from
    isRunning,      \* Application.isRunning
    startTime,      \* Application.startTime
    now,            \* the clock, performance.now() / 1000
    pending,        \* number of requested animation-frame callbacks not yet run
    normalMatrix,   \* Renderer.normalMatrix
    time,           \* the time of the last frame (local of _renderLoop)
    draws,          \* the draws of the last submitted render pass, in order
    frames,         \* whether a frame has been rendered
    call,           \* the last call made on a class used on its own
    result          \* <<its result>>, or <<>> before the call

appVars == <<models, loadedFrom, isRunning, startTime, now, pending,
             normalMatrix, time, draws, frames>>

vars == <<models, loadedFrom, isRunning, startTime, now, pending,
          normalMatrix, time, draws, frames, call, result>>

NoCall == [op |-> "none", name |-> "", id |-> 0, before |-> <<>>]

\* new Application(canvas), with a Renderer, and no model in the scene
NewApplication ==
    /\ isRunning = FALSE
    /\ startTime = 0
    /\ pending = 0
    /\ normalMatrix = RatIdentity
    /\ time = 0
    /\ draws = <<>>
    /\ frames = FALSE

\* the state once Application.initialize() has loaded the models
Init ==
    /\ NewApplication
    /\ loadedFrom \in {<<a, b>> : a \in Assets, b \in Assets}
    /\ models = [m \in 1..2 |-> LoadModel(loadedFrom[m][1], loadedFrom[m][2])]
    /\ now = 0
    /\ call = NoCall
    /\ result = <<>>

\* the models after the update loop of _renderLoop
UpdateModels(sceneModels, t) ==
    [m \in 1..Len(sceneModels) |-> ModelUpdate(sceneModels[m], t)]

\* mutant: the frame is rendered before the models are updated
RenderLoopRenderFirst(start, pendingBefore) ==
    LET t       == now - start
        updated == UpdateModels(models, t)
        rs      == Render(normalMatrix, models)
    IN  /\ time' = t
        /\ models' = updated
        /\ normalMatrix' = rs.normalMatrix
        /\ draws' = rs.draws
        /\ frames' = TRUE
        /\ pending' = pendingBefore + 1

\* Application._renderLoop() while running: update every model, render,
\* request the next animation frame
RenderLoop(start, pendingBefore) ==
    LET t       == now - start
        updated == UpdateModels(models, t)
        rs      == Render(normalMatrix, updated)
    IN  /\ time' = t
        /\ models' = updated
        /\ normalMatrix' = rs.normalMatrix
        /\ draws' = rs.draws
        /\ frames' = TRUE
        /\ pending' = pendingBefore + 1

\* Application.start()
Start ==
    /\ pending < MaxPending
    /\ IF isRunning
       THEN UNCHANGED vars
       ELSE /\ isRunning' = TRUE
            /\ startTime' = now
            /\ RenderLoop(now, pending)
            /\ UNCHANGED <<now, loadedFrom, call, result>>

\* Application.stop()
Stop ==
    /\ isRunning' = FALSE
    /\ UNCHANGED <<models, loadedFrom, startTime, now, pending, normalMatrix,
                   time, draws, frames, call, result>>

\* mutant: _renderLoop() without its isRunning guard
FrameCallbackUnguarded ==
    /\ pending > 0
    /\ RenderLoop(startTime, pending - 1)
    /\ UNCHANGED <<isRunning, startTime, now, loadedFrom, call, result>>

\* the host runs one requested animation-frame callback: _renderLoop()
FrameCallback ==
    /\ pending > 0
    /\ IF ~isRunning
       THEN /\ pending' = pending - 1
            /\ UNCHANGED <<models, loadedFrom, isRunning, startTime, now,
                           normalMatrix, time, draws, frames, call, result>>
       ELSE /\ RenderLoop(startTime, pending - 1)
            /\ UNCHANGED <<isRunning, startTime, now, loadedFrom, call, result>>

\* the clock advances
Tick ==
    /\ now < MaxNow
    /\ now' = now + 1
    /\ UNCHANGED <<models, loadedFrom, isRunning, startTime, pending,
                   normalMatrix, time, draws, frames, call, result>>

Next == Start \/ Stop \/ FrameCallback \/ Tick

Spec == Init /\ [][Next]_vars

(***************************************************************************)
(* Properties of the frame loop                                            *)
(***************************************************************************)
Range(seq) == {seq[i] : i \in 1..Len(seq)}

IsRoot(model, n) == n \in Range(model.rootNodes)

ParentsOf(model, n) ==
    {p \in 1..Len(model.nodes) : n \in Range(model.nodes[p].children)}

ParentOf(model, n) == CHOOSE p \in ParentsOf(model, n) : TRUE

RECURSIVE Closure(_, _, _)

Closure(model, S, fuel) ==
    IF fuel = 0 THEN S
    ELSE Closure(model,
                 S \cup UNION {Range(model.nodes[n].children) : n \in S},
                 fuel - 1)

\* the nodes that can be reached from the roots
ReachableNodes(model) ==
    Closure(model, Range(model.rootNodes), Len(model.nodes))

\* the node with the fields the active clip writes at frame time t
SampledNode(model, n, t) ==
    AnimationSystemUpdate(model.animationSystem, model.nodes, t)[n]

RECURSIVE ExpectedWorld(_, _, _)

\* the product, from the base transform down the path to node n, of the
\* local matrices composed from the TRS values sampled at frame time t
ExpectedWorld(model, n, t) ==
    Mat4Multiply(
        IF IsRoot(model, n) THEN model.baseTransform
        ELSE ExpectedWorld(model, ParentOf(model, n), t),
        Mat4FromRotationTranslationScale(SampledNode(model, n, t).rotation,
                                         SampledNode(model, n, t).translation,
                                         SampledNode(model, n, t).scale))

\* C1: after Model.update(time), every joint matrix is the product of the
\* inverse bind matrix with the world matrix obtained from the TRS values
\* sampled at that same frame's time, and so is every world matrix: the three
\* steps ran in the order animation, hierarchy, skins.
C1_UpdateOrder ==
    frames =>
        \A m \in 1..Len(models) :
            /\ \A n \in ReachableNodes(models[m]) :
                   models[m].nodes[n].worldMatrix
                       = ExpectedWorld(models[m], n, time)
            /\ \A s \in 1..Len(models[m].skins) :
                   \A i \in 1..Len(models[m].skins[s].joints) :
                       models[m].skins[s].joints[i]
                               \in ReachableNodes(models[m])
                       => models[m].skins[s].jointMatrices[i]
                              = Mat4Multiply(
                                    ExpectedWorld(models[m],
                                        models[m].skins[s].joints[i], time),
                                    models[m].skins[s].inverseBindMatrices[i])

\* a frame at a time past 0 of a skinned model whose active clip has moved
\* the joints away from the pose of the previous frame
C1_Witness ==
    /\ frames
    /\ time >= 2
    /\ \E m \in 1..Len(models) :
           /\ Len(models[m].skins) > 0
           /\ models[m].animationSystem.currentAnimation # NullAnimation
           /\ ModelUpdate(models[m], time - 1) # models[m]

\* the model matrix and the uploaded joint matrices of a draw are those of
\* the models as they are now
DrawIsCurrent(d) ==
    LET model == models[d.model]
        node  == model.nodes[d.node]
    IN  /\ d.modelMatrix = NodeModelMatrix(model, d.node)
        /\ d.jointWrite =>
               d.jointData = model.skins[node.skinIndex].jointMatrices

\* C2: the draws of a frame were made from models that had all been updated
\* at that frame's time: every model is in the state update(time) leaves it
\* in, every draw carries the matrices of that state, and every primitive
\* instance of every reachable mesh node was drawn.
C2_UpdateBeforeRender ==
    frames =>
        /\ \A m \in 1..Len(models) : ModelUpdate(models[m], time) = models[m]
        /\ \A i \in 1..Len(draws) : DrawIsCurrent(draws[i])
        /\ \A m \in 1..Len(models) :
               \A n \in ReachableNodes(models[m]) :
                   \A k \in 1..Len(models[m].nodes[n].primitiveInstances) :
                       \E i \in 1..Len(draws) :
                           /\ draws[i].model = m
                           /\ draws[i].node = n
                           /\ draws[i].instance = k

\* a later frame in which the second model, too, changed since the frame
\* before and was drawn with a world matrix
C2_Witness ==
    /\ frames
    /\ time >= 1
    /\ ModelUpdate(models[2], time - 1) # models[2]
    /\ \E i \in 1..Len(draws) :
           /\ draws[i].model = 2
           /\ draws[i].modelMatrix # Mat4Create

\* C3: after updateWorldMatrices(base, true), every node reachable from a
\* root has matrix = compose(T, R, S) of its TRS and worldMatrix = (world
\* matrix of its parent, the base transform for a root) x matrix.
C3_WorldMatrices ==
    frames =>
        \A m \in 1..Len(models) :
            \A n \in ReachableNodes(models[m]) :
                LET node == models[m].nodes[n]
                IN  /\ node.matrix = Mat4FromRotationTranslationScale(
                                         node.rotation, node.translation,
                                         node.scale)
                    /\ node.worldMatrix = Mat4Multiply(
                           IF IsRoot(models[m], n)
                           THEN models[m].baseTransform
                           ELSE models[m].nodes[ParentOf(models[m], n)]
                                    .worldMatrix,
                           node.matrix)

\* an updated hierarchy in which a node built from a source matrix, moved by
\* the animation since, has a child
C3_Witness ==
    /\ frames
    /\ \E m \in 1..Len(models) :
           \E n \in ReachableNodes(models[m]) :
               /\ models[m].nodes[n].hasOriginalMatrix
               /\ models[m].nodes[n].children # <<>>
               /\ models[m].nodes[n].matrix # loadedFrom[m][2].nodes[n].matrix
               /\ models[m].baseTransform # Mat4Create

\* C4: a skin holds one inverse bind matrix and one joint matrix per joint,
\* the inverse bind matrices being the accessor's, or identities when the
\* document declares none; after updateAll, joint matrix i is the world
\* matrix of joint node i times inverse bind matrix i.
C4_JointMatrices ==
    \A m \in 1..Len(models) :
        \A s \in 1..Len(models[m].skins) :
            LET skin   == models[m].skins[s]
                source == loadedFrom[m][2].skins[s]
            IN  /\ Len(skin.inverseBindMatrices) = Len(skin.joints)
                /\ Len(skin.jointMatrices) = Len(skin.joints)
                /\ skin.joints = source.joints
                /\ \A i \in 1..Len(skin.joints) :
                       /\ skin.inverseBindMatrices[i]
                            = IF source.inverseBindMatrices = NoAccessor
                              THEN Mat4Create
                              ELSE source.inverseBindMatrices[i]
                       /\ frames =>
                              skin.jointMatrices[i]
                                  = Mat4Multiply(
                                        models[m].nodes[skin.joints[i]]
                                            .worldMatrix,
                                        skin.inverseBindMatrices[i])

\* after a frame, a skin with declared inverse bind matrices beside a skin
\* without any, both with joints away from the origin
C4_Witness ==
    /\ frames
    /\ \E m \in 1..Len(models) :
           /\ Len(models[m].skins) > 0
           /\ loadedFrom[m][2].skins[1].inverseBindMatrices # NoAccessor
           /\ models[m].skins[1].jointMatrices[1]
                # models[m].nodes[models[m].skins[1].joints[1]].worldMatrix
    /\ \E m \in 1..Len(models) :
           /\ Len(models[m].skins) > 0
           /\ loadedFrom[m][2].skins[1].inverseBindMatrices = NoAccessor
           /\ models[m].skins[1].jointMatrices[1] # Mat4Create

\* the greatest last keyframe time of the channels of a clip, 0 without any
MaxLastKeyTime(clip) ==
    LET ends == {clip.channels[k].times[Len(clip.channels[k].times)] :
                     k \in {j \in 1..Len(clip.channels) :
                                Len(clip.channels[j].times) > 0}}
    IN  IF ends = {} THEN 0
        ELSE CHOOSE e \in ends : \A f \in ends : f <= e

\* channel k is the last channel of the clip that writes its node's field
LastWriter(clip, k) ==
    \A j \in (k + 1)..Len(clip.channels) :
        \/ clip.channels[j].targetNode # clip.channels[k].targetNode
        \/ clip.channels[j].targetPath # clip.channels[k].targetPath

\* the node field a channel of the given path animates; a path other than
\* the three names no field
FieldOf(node, path) ==
    CASE path = "translation" -> node.translation
      [] path = "rotation" -> node.rotation
      [] path = "scale" -> node.scale
      [] OTHER -> <<>>

\* C6: the active clip's duration is the greatest last keyframe time of its
\* channels; after Animation.update(nodes, time) each animated field holds
\* its channel's sample at time mod duration, whatever the other channels
\* are; and for a duration D > 0 the fields written at time are those
\* written at time - k * D, for every k >= 0 (the clip loops).
C6_ClipLoops ==
    frames =>
        \A m \in 1..Len(models) :
            LET clip == models[m].animationSystem.currentAnimation
                D    == clip.duration
            IN  clip # NullAnimation =>
                    /\ D = MaxLastKeyTime(clip)
                    /\ D > 0 =>
                           /\ \A k \in 1..Len(clip.channels) :
                                  (/\ clip.channels[k].targetNode
                                          \in 1..Len(models[m].nodes)
                                   /\ LastWriter(clip, k))
                                  => FieldOf(
                                         models[m].nodes[clip.channels[k].targetNode],
                                         clip.channels[k].targetPath)
                                     = FieldOf(
                                         ChannelApply(clip.channels[k],
                                             models[m].nodes[clip.channels[k].targetNode],
                                             time % D),
                                         clip.channels[k].targetPath)
                           /\ \A k \in 0..MaxNow :
                                  time - k * D >= 0 =>
                                      AnimationUpdate(clip, models[m].nodes,
                                                      time - k * D)
                                          = models[m].nodes

\* a frame in the second loop of a clip, at a time that is no multiple of
\* its duration
C6_Witness ==
    /\ frames
    /\ \E m \in 1..Len(models) :
           LET clip == models[m].animationSystem.currentAnimation
           IN  /\ clip # NullAnimation
               /\ clip.duration > 0
               /\ time > clip.duration
               /\ time % clip.duration # 0
               /\ Len(clip.channels) > 1

\* C10 (as claimed): a primitive that uses skinning is drawn with the
\* identity as model matrix, a primitive that does not is drawn with its
\* node's world matrix, and the normal matrix of a draw is the inverse
\* transpose of its model matrix.
C10_ModelMatrixPerPrimitive ==
    \A i \in 1..Len(draws) :
        LET d    == draws[i]
            node == models[d.model].nodes[d.node]
            prim == node.primitiveInstances[d.instance].primitive
        IN  /\ prim.hasSkinning => d.modelMatrix = Mat4Create
            /\ ~prim.hasSkinning => d.modelMatrix = node.worldMatrix
            /\ Mat4Determinant(d.modelMatrix) # 0 =>
                   d.normalMatrix
                       = RatMat(Mat4Transpose(Mat4Adjugate(d.modelMatrix)),
                                Mat4Determinant(d.modelMatrix))

(***************************************************************************)
(* AnimationChannel on its own: keyframe lookup and sampling               *)
(***************************************************************************)
\* an application that is not running, with an empty scene
IdleApplication ==
    /\ NewApplication
    /\ now = 0
    /\ models = <<>>
    /\ loadedFrom = <<>>

\* the strictly increasing keyframe time arrays of 1 to MaxKeys keyframes
KeyTimes ==
    {s \in UNION {[1..n -> 0..MaxKeyTime] : n \in 1..MaxKeys} :
         \A i \in 1..(Len(s) - 1) : s[i] < s[i + 1]}

\* the value of keyframe i: distinct from one keyframe to the next
KeyValue(i) == <<Q * i, Q * i * i>>

KeyChannel(times) ==
    Channel(1, "translation", times, [i \in 1..Len(times) |-> KeyValue(i)],
            "LINEAR")

RestNode == NodeFromGLTF(NodeData(<<>>, <<>>, <<>>, NoMatrix, Undefined,
                                  Undefined, <<>>))

InitKey ==
    /\ IdleApplication
    /\ call \in [op : {"apply"}, times : KeyTimes, t : 0..(MaxKeyTime + 1)]
    /\ result = <<>>

\* channel.apply(node, t) on a node at rest
SampleChannel ==
    /\ result = <<>>
    /\ result' = << [keyframes |-> FindKeyframes(call.times, call.t),
                     node      |-> ChannelApply(KeyChannel(call.times),
                                                RestNode, call.t)] >>
    /\ UNCHANGED <<call, models, loadedFrom, isRunning, startTime, now,
                   pending, normalMatrix, time, draws, frames>>

NextKey == SampleChannel

SpecKey == InitKey /\ [][NextKey]_vars

\* C5: for strictly increasing keyframe times, the lookup at or before the
\* first keyframe gives the first keyframe with factor 0, at or after the
\* last the last with factor 0, and otherwise the one pair (i, i + 1) with
\* times[i] <= t < times[i + 1] and factor (t - times[i]) / (times[i + 1] -
\* times[i]), in [0, 1); so at a keyframe time, at 0 and from the last time
\* on the sample is that keyframe's value, with factor 0.
C5_KeyframeLookup ==
    result # <<>> =>
        LET times == call.times
            t     == call.t
            last  == Len(times)
            kf    == result[1].keyframes
            value == result[1].node.translation
        IN  /\ t <= times[1] =>
                   /\ kf.prevIndex = 1 /\ kf.nextIndex = 1
                   /\ kf.factor[1] = 0
                   /\ value = KeyValue(1)
            /\ t >= times[last] =>
                   /\ kf.prevIndex = last /\ kf.nextIndex = last
                   /\ kf.factor[1] = 0
                   /\ value = KeyValue(last)
            /\ (times[1] < t /\ t < times[last]) =>
                   /\ kf.nextIndex = kf.prevIndex + 1
                   /\ times[kf.prevIndex] <= t /\ t < times[kf.nextIndex]
                   /\ \A j \in 1..(last - 1) :
                          (times[j] <= t /\ t < times[j + 1])
                              => j = kf.prevIndex
                   /\ kf.factor = <<t - times[kf.prevIndex],
                                    times[kf.nextIndex] - times[kf.prevIndex]>>
                   /\ 0 <= kf.factor[1] /\ kf.factor[1] < kf.factor[2]
            /\ \A j \in 1..last :
                   t = times[j] => (kf.factor[1] = 0 /\ value = KeyValue(j))
            /\ t = 0 => (kf.factor[1] = 0 /\ value = KeyValue(1))

\* a sample strictly between two keyframes that are neither the first pair
\* nor adjacent times
C5_Witness ==
    /\ result # <<>>
    /\ result[1].keyframes.prevIndex > 1
    /\ result[1].keyframes.factor[1] > 0
    /\ result[1].node.translation # KeyValue(result[1].keyframes.prevIndex)

(***************************************************************************)
(* Skin on its own: the joint matrix array                                 *)
(***************************************************************************)
JointMatrixPool ==
    { Mat4Create,
      <<<<2, 0, 5>>, <<0, 3, 7>>, <<0, 0, 1>>>>,
      <<<<0, 4, 0 - 6>>, <<0 - 4, 0, 8>>, <<0, 0, 1>>>> }

\* a skin of n joints whose joint matrices have been updated to jm
SkinWith(jm) ==
    [NewSkin([i \in 1..Len(jm) |-> i], [i \in 1..Len(jm) |-> Mat4Create])
         EXCEPT !.jointMatrices = jm]

InitSkinArray ==
    /\ IdleApplication
    /\ call \in [op : {"getMatricesArray"},
                 skin : {SkinWith(jm) :
                             jm \in UNION {[1..n -> JointMatrixPool] :
                                               n \in 0..MaxJointCount}},
                 maxJoints : 0..MaxCapacity]
    /\ result = <<>>

\* skin.getMatricesArray(maxJoints)
GetMatricesArray ==
    /\ result = <<>>
    /\ result' = <<SkinGetMatricesArray(call.skin, call.maxJoints)>>
    /\ UNCHANGED <<call, models, loadedFrom, isRunning, startTime, now,
                   pending, normalMatrix, time, draws, frames>>

NextSkinArray == GetMatricesArray

SpecSkinArray == InitSkinArray /\ [][NextSkinArray]_vars

\* the 16 floats of matrix slot i (from 0) of a flat array
Slot(array, i) == [k \in 1..16 |-> array[i * 16 + k]]

\* C9 (as claimed): the array has capacity x 16 values, slot i holds joint
\* matrix i for i < min(jointCount, capacity), and every slot from
\* jointCount up to capacity holds the identity matrix.
C9_IdentityPadded ==
    result # <<>> =>
        LET jm == call.skin.jointMatrices
        IN  /\ Len(result[1]) = call.maxJoints * 16
            /\ \A i \in 0..(call.maxJoints - 1) :
                   Slot(result[1], i)
                       = IF i < Len(jm) THEN Mat4Array(jm[i + 1])
                         ELSE Mat4Array(Mat4Create)

\* C9 (amended): the array has capacity x 16 values, slot i holds joint
\* matrix i for i < min(jointCount, capacity), every slot from jointCount up
\* to capacity holds sixteen zeros, and the joints from capacity on are
\* dropped.
C9_ZeroPadded ==
    result # <<>> =>
        LET jm == call.skin.jointMatrices
        IN  /\ Len(result[1]) = call.maxJoints * 16
            /\ \A i \in 0..(call.maxJoints - 1) :
                   Slot(result[1], i)
                       = IF i < Len(jm) THEN Mat4Array(jm[i + 1])
                         ELSE [k \in 1..16 |-> 0]

\* an array with a copied matrix and a padding slot
C9_Witness ==
    /\ result # <<>>
    /\ Len(call.skin.jointMatrices) > 0
    /\ Len(call.skin.jointMatrices) < call.maxJoints
    /\ call.skin.jointMatrices[Len(call.skin.jointMatrices)] # Mat4Create

\* an array from which joints were dropped
C9_WitnessTruncated ==
    /\ result # <<>>
    /\ call.maxJoints > 0
    /\ Len(call.skin.jointMatrices) > call.maxJoints

(***************************************************************************)
(* AnimationSystem on its own: a model's clips driven through its methods  *)
(***************************************************************************)
\* the Animation objects a caller holds: the two clips of the rig and a
\* second clip named "Run"
ClipPool ==
    { AnimationFromGLTF(RigDocument(NoAccessor).animations[1], 1),
      AnimationFromGLTF(RigDocument(NoAccessor).animations[2], 2),
      AnimationFromGLTF(
          [name |-> "Run",
           channels |-> << Channel(1, "translation", <<0, MaxKeyTime>>,
                                   <<<<0, Q>>, <<Q, Q>>>>, "LINEAR") >>], 3) }

ClipNames == {"Walk", "Run", "Missing", ""}

\* the times update is called with
UpdateTimes == {1, MaxKeyTime + 1}

\* the rig, loaded from a document without an animations array
BareRig ==
    <<Config("Rig", <<0, 0>>, 0, 1, ""),
      [RigDocument(NoAccessor) EXCEPT !.hasAnimations = FALSE]>>

InitAnim ==
    /\ NewApplication
    /\ now = 0
    /\ loadedFrom = <<BareRig>>
    /\ models = <<LoadModel(BareRig[1], BareRig[2])>>
    /\ call = NoCall
    /\ result = <<>>

Called(op, name, id) ==
    /\ call' = [op |-> op, name |-> name, id |-> id, before |-> models[1]]
    /\ UNCHANGED <<loadedFrom, isRunning, startTime, now, pending,
                   normalMatrix, draws, frames, result>>

\* animationSystem.add(animation)
Add ==
    \E a \in ClipPool :
        /\ Len(models[1].animationSystem.animations) < MaxClips
        /\ models' = [models EXCEPT ![1].animationSystem =
                          AnimationSystemAdd(@, a)]
        /\ time' = time
        /\ Called("add", "", a.id)

\* animationSystem.setCurrent(name)
SetCurrentName ==
    \E name \in ClipNames :
        /\ models' = [models EXCEPT ![1].animationSystem =
                          SetCurrentByName(@, name)]
        /\ time' = time
        /\ Called("setCurrentByName", name, 0)

\* animationSystem.setCurrent(animation); null is an object too
SetCurrentObject ==
    \E a \in ClipPool \cup {NullAnimation} :
        /\ models' = [models EXCEPT ![1].animationSystem =
                          SetCurrentByObject(@, a)]
        /\ time' = time
        /\ Called("setCurrentByObject", "", a.id)

\* animationSystem.setDefaultAnimation(preferredName)
SetDefault ==
    \E name \in ClipNames :
        /\ models' = [models EXCEPT ![1].animationSystem =
                          SetDefaultAnimation(@, name)]
        /\ time' = time
        /\ Called("setDefaultAnimation", name, 0)

\* model.updateAnimation(time)
UpdateAnimation ==
    \E t \in UpdateTimes :
        /\ models' = [models EXCEPT ![1] = ModelUpdateAnimation(@, t)]
        /\ time' = t
        /\ Called("update", "", 0)

NextAnim ==
    Add \/ SetCurrentName \/ SetCurrentObject \/ SetDefault \/ UpdateAnimation

SpecAnim == InitAnim /\ [][NextAnim]_vars

\* the first clip of the list with the given name, NullAnimation if none
FirstNamed(animations, name) ==
    LET named == {i \in 1..Len(animations) : animations[i].name = name}
    IN  IF named = {} THEN NullAnimation
        ELSE animations[CHOOSE i \in named : \A j \in named : i <= j]

\* C7 (as claimed): after setDefaultAnimation(preferredName) the active clip
\* is the first clip named preferredName if there is one, otherwise the first
\* clip, otherwise none when the system has no clips.
C7_DefaultOrNone ==
    call.op = "setDefaultAnimation" =>
        LET before == call.before.animationSystem
            sys    == models[1].animationSystem
        IN  sys.currentAnimation =
                IF call.name # ""
                   /\ FirstNamed(before.animations, call.name) # NullAnimation
                THEN FirstNamed(before.animations, call.name)
                ELSE IF Len(before.animations) > 0 THEN before.animations[1]
                ELSE NullAnimation

\* C7 (amended): after setDefaultAnimation(preferredName) the active clip is
\* the first clip named preferredName if there is one, otherwise the first
\* clip, and when the system has no clips the active clip is left as it was
\* (none on a system whose active clip was never set); the clips are left
\* as they were.
C7_DefaultOrUnchanged ==
    call.op = "setDefaultAnimation" =>
        LET before == call.before.animationSystem
            sys    == models[1].animationSystem
        IN  /\ sys.animations = before.animations
            /\ sys.currentAnimation =
                   IF call.name # ""
                      /\ FirstNamed(before.animations, call.name) # NullAnimation
                   THEN FirstNamed(before.animations, call.name)
                   ELSE IF Len(before.animations) > 0 THEN before.animations[1]
                   ELSE before.currentAnimation

\* the preferred name picks the first of two clips of that name, which is
\* not the first clip, over another active clip
C7_Witness ==
    /\ call.op = "setDefaultAnimation"
    /\ Len(models[1].animationSystem.animations) >= 3
    /\ models[1].animationSystem.animations[1].name # call.name
    /\ models[1].animationSystem.animations[2].name = call.name
    /\ models[1].animationSystem.animations[3].name = call.name
    /\ models[1].animationSystem.animations[3].id
           # models[1].animationSystem.animations[2].id
    /\ models[1].animationSystem.currentAnimation
           = models[1].animationSystem.animations[2]
    /\ call.before.animationSystem.currentAnimation
           # models[1].animationSystem.currentAnimation

\* C7: a system without clips whose active clip was never set has none after
\* setDefaultAnimation
C7_WitnessNoClips ==
    /\ call.op = "setDefaultAnimation"
    /\ models[1].animationSystem.animations = <<>>
    /\ models[1].animationSystem.currentAnimation = NullAnimation

\* the node fields an animation channel can write
Paths == {"translation", "rotation", "scale"}

\* clip has a channel on field path of node n
Targets(clip, n, path) ==
    \E k \in 1..Len(clip.channels) :
        /\ clip.channels[k].targetNode = n
        /\ clip.channels[k].targetPath = path

\* C8 (as claimed): after any sequence of add, setCurrent and
\* setDefaultAnimation, currentAnimation is exactly one of the model's clips.
C8_ExactlyOneActive ==
    call.op \in {"add", "setCurrentByName", "setCurrentByObject",
                 "setDefaultAnimation"} =>
    Cardinality({i \in 1..Len(models[1].animationSystem.animations) :
                     models[1].animationSystem.animations[i]
                         = models[1].animationSystem.currentAnimation
                     /\ models[1].animationSystem.currentAnimation
                            # NullAnimation}) = 1

\* C8 (amended): at most one clip is active per model: currentAnimation is
\* null or a single Animation.  After setCurrent by name it is null or the
\* first of the model's clips with that name, after setDefaultAnimation on a
\* system with clips it is one of them, and after setCurrent by object it is
\* the object given, one of the model's clips or not.  update writes node
\* fields that channels of that clip target and no others, and nothing when
\* there is none.
C8_AtMostOneActive ==
    LET sys    == models[1].animationSystem
        before == call.before
    IN  /\ sys.currentAnimation \in ClipPool \cup {NullAnimation}
        /\ call.op = "setCurrentByName" =>
               /\ sys.currentAnimation = FirstNamed(sys.animations, call.name)
               /\ sys.currentAnimation \in Range(sys.animations) \cup {NullAnimation}
        /\ (call.op = "setDefaultAnimation" /\ Len(sys.animations) > 0) =>
               sys.currentAnimation \in Range(sys.animations)
        /\ call.op = "setCurrentByObject" =>
               sys.currentAnimation.id = call.id
        /\ call.op = "add" => sys.currentAnimation = before.animationSystem.currentAnimation
        /\ call.op = "update" =>
               /\ sys = before.animationSystem
               /\ Len(models[1].nodes) = Len(before.nodes)
               /\ \A n \in 1..Len(before.nodes) :
                      /\ [models[1].nodes[n] EXCEPT
                              !.translation = before.nodes[n].translation,
                              !.rotation = before.nodes[n].rotation,
                              !.scale = before.nodes[n].scale] = before.nodes[n]
                      /\ \A path \in Paths :
                             FieldOf(models[1].nodes[n], path)
                                 # FieldOf(before.nodes[n], path)
                             => /\ sys.currentAnimation # NullAnimation
                                /\ Targets(sys.currentAnimation, n, path)

\* update moved nodes with the active clip while another clip of the model
\* targets a field the active clip leaves alone
C8_Witness ==
    /\ call.op = "update"
    /\ models[1].nodes # call.before.nodes
    /\ models[1].animationSystem.currentAnimation
           \in Range(models[1].animationSystem.animations)
    /\ \E i \in 1..Len(models[1].animationSystem.animations) :
       \E n \in 1..Len(models[1].nodes) : \E path \in Paths :
           /\ Targets(models[1].animationSystem.animations[i], n, path)
           /\ ~Targets(models[1].animationSystem.currentAnimation, n, path)

(***************************************************************************)
(* Materials: MeshFactory._processMaterial                                 *)
(***************************************************************************)
\* A value the document may leave out is <<>> when absent and <<v>> when
\* present; an index the document may leave out is Undefined when absent.
Absent == <<>>

DefaultTexture == [kind |-> "default"]

\* the texture TextureLoader.loadFromGLTF creates for texture textureIndex
LoadedTexture(textureIndex) == [kind |-> "loaded", index |-> textureIndex]

\* new Primitive(), with the two feature flags of _processPrimitive
NewPrimitive(hasSkinning, hasNormals) ==
    [texture                     |-> [kind |-> "null"],
     baseColor                   |-> <<1, 1, 1, 1>>,
     hasTexture                  |-> FALSE,
     metallicRoughnessTexture    |-> [kind |-> "null"],
     metallicFactor              |-> 1,
     roughnessFactor             |-> 1,
     hasMetallicRoughnessTexture |-> FALSE,
     normalTexture               |-> [kind |-> "null"],
     normalScale                 |-> 1,
     hasNormalTexture            |-> FALSE,
     emissiveTexture             |-> [kind |-> "null"],
     emissiveFactor              |-> <<0, 0, 0, 1>>,
     hasEmissiveTexture          |-> FALSE,
     hasSkinning                 |-> hasSkinning,
     hasNormals                  |-> hasNormals]

\* the defaults _processMaterial sets before it looks at the material
MaterialDefaults(primitive) ==
    [primitive EXCEPT
        !.texture = DefaultTexture,
        !.baseColor = <<1, 1, 1, 1>>,
        !.hasTexture = FALSE,
        !.metallicRoughnessTexture = DefaultTexture,
        !.metallicFactor = 1,
        !.roughnessFactor = 1,
        !.hasMetallicRoughnessTexture = FALSE,
        !.normalTexture = DefaultTexture,
        !.normalScale = 1,
        !.hasNormalTexture = FALSE,
        !.emissiveTexture = DefaultTexture,
        !.emissiveFactor = <<0, 0, 0, 1>>,
        !.hasEmissiveTexture = FALSE]

\* an operation that may throw: its value, or the error it throws
Returned(value) == [ok |-> TRUE, value |-> value]

Thrown(error, partial) == [ok |-> FALSE, error |-> error, value |-> partial]

\* await textureLoader.loadFromGLTF(gltf, buffers, baseUrl, textureIndex):
\* images[textureIndex] says how loading the image of that texture ends
LoadFromGLTF(images, textureIndex) ==
    IF images[textureIndex] = "ok" THEN Returned(LoadedTexture(textureIndex))
    ELSE Thrown(images[textureIndex], Absent)

\* the four texture slots of _processMaterial, in the order it loads them
BaseColorSlot(primitive, material, images) ==
    IF material.baseColorTexture = Undefined THEN Returned(primitive)
    ELSE LET t == LoadFromGLTF(images, material.baseColorTexture)
         IN  IF ~t.ok THEN Thrown(t.error, primitive)
             ELSE Returned([primitive EXCEPT !.texture = t.value,
                                             !.hasTexture = TRUE])

MetallicRoughnessSlot(primitive, material, images) ==
    IF material.metallicRoughnessTexture = Undefined THEN Returned(primitive)
    ELSE LET t == LoadFromGLTF(images, material.metallicRoughnessTexture)
         IN  IF ~t.ok THEN Thrown(t.error, primitive)
             ELSE Returned([primitive EXCEPT
                                !.metallicRoughnessTexture = t.value,
                                !.hasMetallicRoughnessTexture = TRUE])

EmissiveSlot(primitive, material, images) ==
    IF material.emissiveTexture = Undefined THEN Returned(primitive)
    ELSE LET t == LoadFromGLTF(images, material.emissiveTexture)
         IN  IF ~t.ok THEN Thrown(t.error, primitive)
             ELSE Returned([primitive EXCEPT !.emissiveTexture = t.value,
                                             !.hasEmissiveTexture = TRUE])

NormalSlot(primitive, material, images) ==
    IF material.normalTexture = Undefined THEN Returned(primitive)
    ELSE LET t == LoadFromGLTF(images, material.normalTexture)
         IN  IF ~t.ok THEN Thrown(t.error, primitive)
             ELSE Returned([primitive EXCEPT
                                !.normalTexture = t.value,
                                !.hasNormalTexture = TRUE,
                                !.normalScale =
                                    IF material.normalTextureScale # Absent
                                    THEN material.normalTextureScale[1]
                                    ELSE @])

\* the factors of the material that are copied between the texture loads
BaseColorFactor(primitive, material) ==
    IF material.baseColorFactor # Absent
    THEN [primitive EXCEPT !.baseColor = material.baseColorFactor[1]]
    ELSE primitive

MetallicRoughnessFactors(primitive, material) ==
    [primitive EXCEPT
        !.metallicFactor = IF material.metallicFactor # Absent
                           THEN material.metallicFactor[1] ELSE @,
        !.roughnessFactor = IF material.roughnessFactor # Absent
                            THEN material.roughnessFactor[1] ELSE @]

\* [f[0] ?? 0, f[1] ?? 0, f[2] ?? 0, 1]
EmissiveFactor(primitive, material) ==
    IF material.emissiveFactor # Absent
    THEN LET f == material.emissiveFactor[1]
         IN  [primitive EXCEPT !.emissiveFactor =
                 <<IF Len(f) >= 1 THEN f[1] ELSE 0,
                   IF Len(f) >= 2 THEN f[2] ELSE 0,
                   IF Len(f) >= 3 THEN f[3] ELSE 0, 1>>]
    ELSE primitive

\* MeshFactory._processMaterial(primitive, gltf, buffers, baseUrl, primData,
\* defaultTexture); material is Absent when primData.material is undefined.
\* A rejected texture load rejects _processMaterial: nothing catches it.
ProcessMaterial(primitive, material, images) ==
    LET p0 == MaterialDefaults(primitive)
    IN  IF material = Absent THEN Returned(p0)
        ELSE LET m  == material[1]
                 r1 == BaseColorSlot(p0, m, images)
                 p1 == BaseColorFactor(r1.value, m)
                 r2 == MetallicRoughnessSlot(p1, m, images)
                 p2 == MetallicRoughnessFactors(r2.value, m)
                 r3 == EmissiveSlot(p2, m, images)
                 p3 == EmissiveFactor(r3.value, m)
                 r4 == NormalSlot(p3, m, images)
             IN  IF ~r1.ok THEN r1
                 ELSE IF ~r2.ok THEN r2
                 ELSE IF ~r3.ok THEN r3
                 ELSE r4

\* a material of a document
Material(bct, bcf, mrt, mf, rf, et, ef, nt, nts) ==
    [baseColorTexture         |-> bct,
     baseColorFactor          |-> bcf,
     metallicRoughnessTexture |-> mrt,
     metallicFactor           |-> mf,
     roughnessFactor          |-> rf,
     emissiveTexture          |-> et,
     emissiveFactor           |-> ef,
     normalTexture            |-> nt,
     normalTextureScale       |-> nts]

\* materials with textures 1 to 4 in some of the slots
Materials ==
    { Material(b, <<<<2, 3, 4, 1>>>>, mr, <<0>>, Absent, e, <<<<5, 6>>>>,
               n, <<7>>) :
          b \in {Undefined, 1}, mr \in {Undefined, 2}, e \in {Undefined, 3},
          n \in {Undefined, 4} }
    \cup { Material(1, Absent, Undefined, Absent, <<3>>, Undefined, Absent,
                    4, Absent) }

(***************************************************************************)
(* Renderer._drawPrimitive on its own: the uniform record and the writes   *)
(***************************************************************************)
\* new ArrayBuffer(368)
UniformsByteLength == 368

DEFAULT_LIGHT_DIR == <<1, 1, 1, 0>>

\* a 32-bit word of the record: the view it was written through and the
\* value written; a word never written holds zero bits
Word(view, value) == <<view, value>>

ZeroWord == Word("u32", 0)

\* the writes of _drawPrimitive into the record, in the order of the code:
\* floatView.set(array, at), floatView[at] = x and uintView[at] = x
FloatSet(array, at) == [view |-> "f32", at |-> at, data |-> array]

FloatPut(at, x) == [view |-> "f32", at |-> at, data |-> <<x>>]

UintPut(at, x) == [view |-> "u32", at |-> at, data |-> <<x>>]

Flag(b) == IF b THEN 1 ELSE 0

\* mutant: the normal-texture flag is written one word early
UniformWritesFlagEarly(renderer, primitive, modelMatrix, skin) ==
    << FloatSet(modelMatrix, 0),
       FloatSet(renderer.viewMatrix, 16),
       FloatSet(renderer.projectionMatrix, 32),
       FloatSet(renderer.normalMatrix, 48),
       FloatSet(DEFAULT_LIGHT_DIR, 64),
       FloatSet(primitive.baseColor, 68),
       UintPut(72, Flag(primitive.hasSkinning /\ skin # NullSkin)),
       UintPut(73, Flag(primitive.hasTexture)),
       UintPut(74, Flag(primitive.hasNormals)),
       UintPut(75, Flag(primitive.hasMetallicRoughnessTexture)),
       FloatPut(76, primitive.metallicFactor),
       FloatPut(77, primitive.roughnessFactor),
       FloatPut(78, primitive.normalScale),
       UintPut(78, Flag(primitive.hasNormalTexture)),
       FloatPut(80, primitive.emissiveFactor[1]),
       FloatPut(81, primitive.emissiveFactor[2]),
       FloatPut(82, primitive.emissiveFactor[3]),
       FloatPut(83, IF Len(primitive.emissiveFactor) >= 4
                    THEN primitive.emissiveFactor[4] ELSE 1),
       UintPut(84, Flag(primitive.hasEmissiveTexture)) >>

UniformWrites(renderer, primitive, modelMatrix, skin) ==
    << FloatSet(modelMatrix, 0),
       FloatSet(renderer.viewMatrix, 16),
       FloatSet(renderer.projectionMatrix, 32),
       FloatSet(renderer.normalMatrix, 48),
       FloatSet(DEFAULT_LIGHT_DIR, 64),
       FloatSet(primitive.baseColor, 68),
       UintPut(72, Flag(primitive.hasSkinning /\ skin # NullSkin)),
       UintPut(73, Flag(primitive.hasTexture)),
       UintPut(74, Flag(primitive.hasNormals)),
       UintPut(75, Flag(primitive.hasMetallicRoughnessTexture)),
       FloatPut(76, primitive.metallicFactor),
       FloatPut(77, primitive.roughnessFactor),
       FloatPut(78, primitive.normalScale),
       UintPut(79, Flag(primitive.hasNormalTexture)),
       FloatPut(80, primitive.emissiveFactor[1]),
       FloatPut(81, primitive.emissiveFactor[2]),
       FloatPut(82, primitive.emissiveFactor[3]),
       FloatPut(83, IF Len(primitive.emissiveFactor) >= 4
                    THEN primitive.emissiveFactor[4] ELSE 1),
       UintPut(84, Flag(primitive.hasEmissiveTexture)) >>

RECURSIVE ApplyWrites(_, _, _)

\* the record after the writes from the k-th on, later writes over earlier
ApplyWrites(words, writes, k) ==
    IF k > Len(writes) THEN words
    ELSE ApplyWrites(
             [w \in DOMAIN words |->
                 IF writes[k].at <= w /\ w < writes[k].at + Len(writes[k].data)
                 THEN Word(writes[k].view, writes[k].data[w - writes[k].at + 1])
                 ELSE words[w]],
             writes, k + 1)

\* the ArrayBuffer handed to writeBuffer, as its 32-bit words from 0
UniformData(renderer, primitive, modelMatrix, skin) ==
    ApplyWrites([w \in 0..((UniformsByteLength \div 4) - 1) |-> ZeroWord],
                UniformWrites(renderer, primitive, modelMatrix, skin), 1)

\* gpu.writeBuffer(buffer, offset, data)
WriteBuffer(name, buffer, offset, byteLength) ==
    [buffer |-> name, allocated |-> buffer.size, offset |-> offset,
     byteLength |-> byteLength]

\* Renderer._drawPrimitive(renderPass, instance, modelMatrix, skin) in full:
\* the record, the buffer writes and the draw calls of one primitive instance
DrawPrimitiveWrites(renderer, instance, modelMatrix, skins, skin) ==
    LET primitive == instance.primitive
        skinned   == primitive.hasSkinning /\ skin # NullSkin
    IN  [uniforms |-> UniformData(renderer, primitive, modelMatrix, skin),
         bufferWrites |->
             <<WriteBuffer("uniformBuffer", instance.uniformBuffer, 0,
                           UniformsByteLength)>>
             \o (IF skinned
                 THEN <<WriteBuffer("jointMatricesBuffer",
                                    instance.jointMatricesBuffer, 0,
                                    4 * Len(SkinGetMatricesArray(skins[skin],
                                                                 MAX_JOINTS)))>>
                 ELSE <<>>),
         drawCalls |-> 1]

\* The Uniforms struct of main.wgsl and the layout rules of WGSL: a member
\* starts at the next multiple of its alignment after the member before it.
Uniforms ==
    << <<"modelMatrix", "mat4x4<f32>">>,
       <<"viewMatrix", "mat4x4<f32>">>,
       <<"projectionMatrix", "mat4x4<f32>">>,
       <<"normalMatrix", "mat4x4<f32>">>,
       <<"lightDir", "vec4<f32>">>,
       <<"baseColor", "vec4<f32>">>,
       <<"flags", "vec4<u32>">>,
       <<"metallicFactor", "f32">>,
       <<"roughnessFactor", "f32">>,
       <<"normalScale", "f32">>,
       <<"hasNormalTexture", "u32">>,
       <<"emissiveFactor", "vec4<f32>">>,
       <<"hasEmissiveTexture", "u32">>,
       <<"padding2", "vec3<u32>">> >>

AlignOf(type) ==
    CASE type \in {"f32", "u32"} -> 4
      [] type \in {"vec3<u32>", "vec4<f32>", "vec4<u32>", "mat4x4<f32>"} -> 16

SizeOf(type) ==
    CASE type \in {"f32", "u32"} -> 4
      [] type = "vec3<u32>" -> 12
      [] type \in {"vec4<f32>", "vec4<u32>"} -> 16
      [] type = "mat4x4<f32>" -> 64

RoundUp(k, n) == ((n + k - 1) \div k) * k

RECURSIVE OffsetOfMember(_, _)

\* the byte offset of the k-th member of the struct
OffsetOfMember(struct, k) ==
    IF k = 1 THEN 0
    ELSE RoundUp(AlignOf(struct[k][2]),
                 OffsetOfMember(struct, k - 1) + SizeOf(struct[k - 1][2]))

\* the byte size of the struct: a multiple of its greatest alignment
SizeOfStruct(struct) ==
    RoundUp(16, OffsetOfMember(struct, Len(struct))
                    + SizeOf(struct[Len(struct)][2]))

\* the matrices of a draw as the arrays of 16 floats they are
MatrixArrays == {Mat4Array(m) : m \in JointMatrixPool}

ViewArray == [k \in 1..16 |-> 20 + k]

ProjectionArray == [k \in 1..16 |-> 40 + k]

NormalArray == [k \in 1..16 |-> 60 + k]

\* the primitives MeshFactory builds when every texture loads
DrawablePrimitives ==
    { ProcessMaterial(NewPrimitive(hasSkinning, hasNormals), material,
                      [t \in 1..4 |-> "ok"]).value :
          hasSkinning \in BOOLEAN, hasNormals \in BOOLEAN,
          material \in {Absent} \cup {<<m>> : m \in Materials} }

InitDraw ==
    /\ IdleApplication
    /\ call \in [op : {"drawPrimitive"},
                 renderer : {[viewMatrix |-> ViewArray,
                              projectionMatrix |-> ProjectionArray,
                              normalMatrix |-> NormalArray]},
                 instance : {CreateInstance(p) : p \in DrawablePrimitives},
                 modelMatrix : MatrixArrays,
                 skins : {<<SkinWith(<<Mat4Create, Mat4Create>>)>>},
                 skin : {NullSkin, 1}]
    /\ result = <<>>

\* renderer._drawPrimitive(renderPass, instance, modelMatrix, skin)
DrawPrimitiveCall ==
    /\ result = <<>>
    /\ result' = <<DrawPrimitiveWrites(call.renderer, call.instance,
                                       call.modelMatrix, call.skins, call.skin)>>
    /\ UNCHANGED <<call, models, loadedFrom, isRunning, startTime, now,
                   pending, normalMatrix, time, draws, frames>>

NextDraw == DrawPrimitiveCall

SpecDraw == InitDraw /\ [][NextDraw]_vars

\* the first and last word of each field of the record, as claimed, in the
\* order of the members of the struct
ClaimedWords ==
    << <<0, 15>>, <<16, 31>>, <<32, 47>>, <<48, 63>>, <<64, 67>>, <<68, 71>>,
       <<72, 75>>, <<76, 76>>, <<77, 77>>, <<78, 78>>, <<79, 79>>, <<80, 83>>,
       <<84, 84>> >>

\* the words first..last of a record
WordsOf(words, range) ==
    [i \in 1..(range[2] - range[1] + 1) |-> words[range[1] + i - 1]]

Floats(array) == [i \in 1..Len(array) |-> Word("f32", array[i])]

Uints(array) == [i \in 1..Len(array) |-> Word("u32", array[i])]

C12_FullReplacement ==
    result # <<>> =>
        \A i \in 1..Len(result[1].bufferWrites) :
            LET w == result[1].bufferWrites[i]
            IN  /\ w.offset = 0
                /\ w.byteLength = w.allocated
                /\ \/ w.buffer = "uniformBuffer"
                      /\ w.allocated = call.instance.uniformBuffer.size
                   \/ w.buffer = "jointMatricesBuffer"
                      /\ w.allocated = call.instance.jointMatricesBuffer.size

(***************************************************************************)
(* NodeHierarchy.traverse and traverseMeshNodes; the order of the draws    *)
(***************************************************************************)
RECURSIVE TraverseRecursive(_, _, _, _)
RECURSIVE TraverseEach(_, _, _, _, _)

\* traverseRecursive(nodeIndex) of traverse, and traverse(nodeIndex) of
\* traverseMeshNodes when meshOnly: the callbacks made so far are in visited
TraverseRecursive(nodes, nodeIndex, meshOnly, visited) ==
    TraverseEach(nodes, nodes[nodeIndex].children, 1, meshOnly,
                 IF meshOnly => NodeHasMesh(nodes[nodeIndex])
                 THEN Append(visited, nodeIndex)
                 ELSE visited)

\* for (const index of indices) traverse(index), from the k-th index on
TraverseEach(nodes, indices, k, meshOnly, visited) ==
    IF k > Len(indices) THEN visited
    ELSE TraverseEach(nodes, indices, k + 1, meshOnly,
                      TraverseRecursive(nodes, indices[k], meshOnly, visited))

\* NodeHierarchy.traverse(callback): the node indices called back, in order
Traverse(nodes, rootNodes) == TraverseEach(nodes, rootNodes, 1, FALSE, <<>>)

\* NodeHierarchy.traverseMeshNodes(callback)
TraverseMeshNodes(nodes, rootNodes) ==
    TraverseEach(nodes, rootNodes, 1, TRUE, <<>>)

\* the place of value v in a sequence that holds it
IndexIn(seq, v) == CHOOSE i \in 1..Len(seq) : seq[i] = v

RECURSIVE PathTo(_, _)

\* the way from the roots down to a reachable node: the place of its root
\* among the roots, then the place of each node among its parent's children
PathTo(model, n) ==
    IF IsRoot(model, n) THEN <<IndexIn(model.rootNodes, n)>>
    ELSE Append(PathTo(model, ParentOf(model, n)),
                IndexIn(model.nodes[ParentOf(model, n)].children, n))

\* depth-first pre-order: a is before b when a is a proper prefix of b or
\* turns to an earlier child where they part
PathBefore(a, b) ==
    \E i \in 1..Len(b) :
        /\ \A j \in 1..(i - 1) : j <= Len(a) /\ a[j] = b[j]
        /\ (i > Len(a) \/ a[i] < b[i])

\* a sequence of nodes of a model is in depth-first pre-order, each node once
InPreOrder(model, seq) ==
    \A i, j \in 1..Len(seq) :
        i < j => PathBefore(PathTo(model, seq[i]), PathTo(model, seq[j]))

\* C13: the draws of a frame are in scene.models order; within a model in
\* depth-first pre-order of the nodes (roots and children in declared
\* order), which is the order of traverse, and of traverseMeshNodes for the
\* nodes with a mesh; within a node in the order of its primitive instances;
\* every primitive instance of every reachable mesh node is drawn once.
C13_DrawOrder ==
    frames =>
        /\ \A i, j \in 1..Len(draws) :
               i < j =>
                   \/ draws[i].model < draws[j].model
                   \/ /\ draws[i].model = draws[j].model
                      /\ \/ PathBefore(PathTo(models[draws[i].model], draws[i].node),
                                       PathTo(models[draws[j].model], draws[j].node))
                         \/ /\ draws[i].node = draws[j].node
                            /\ draws[i].instance < draws[j].instance
        /\ \A m \in 1..Len(models) :
               LET all    == Traverse(models[m].nodes, models[m].rootNodes)
                   meshes == TraverseMeshNodes(models[m].nodes,
                                               models[m].rootNodes)
                   HasMesh(n) == NodeHasMesh(models[m].nodes[n])
                   drawn  == {i \in 1..Len(draws) : draws[i].model = m}
               IN  /\ Range(all) = ReachableNodes(models[m])
                   /\ InPreOrder(models[m], all)
                   /\ meshes = SelectSeq(all, HasMesh)
                   /\ {draws[i].node : i \in drawn} = Range(meshes)
                   /\ \A n \in Range(meshes) :
                          Cardinality({i \in drawn : draws[i].node = n})
                              = Len(models[m].nodes[n].primitiveInstances)

\* a frame in which the first model has two roots, the first root drawn
\* before its child, the child's two primitives in turn, then the second
\* root whose index is smaller than the first root's, then the second model
C13_Witness ==
    /\ frames
    /\ Len(draws) >= 5
    /\ draws[1].model = 1
    /\ draws[2].model = 1
    /\ draws[1].node > draws[2].node
    /\ IsRoot(models[1], draws[1].node)
    /\ IsRoot(models[1], draws[2].node)
    /\ draws[3].node \in Range(models[1].nodes[draws[2].node].children)
    /\ draws[3].instance = 1
    /\ draws[4].instance = 2
    /\ draws[4].node = draws[3].node
    /\ draws[5].model = 2

(***************************************************************************)
(* GLTFLoader._parseGLB on its own                                         *)
(***************************************************************************)
\* 0x46546C67
GLB_MAGIC == 1179937895

\* dataView.getUint32(byteOffset, true) on a buffer given as its bytes; the
\* caller has checked that the four bytes are inside the buffer
GetUint32(bytes, byteOffset) ==
      bytes[byteOffset + 1]
    + 256 * bytes[byteOffset + 2]
    + 65536 * bytes[byteOffset + 3]
    + 16777216 * bytes[byteOffset + 4]

\* the bytes byteOffset .. byteOffset + length - 1 of a buffer
BytesAt(bytes, byteOffset, length) ==
    [i \in 1..length |-> bytes[byteOffset + i]]

\* the text without the spaces at its ends
Trimmed(text) ==
    LET inked == {i \in 1..Len(text) : text[i] # 32}
    IN  IF inked = {} THEN <<>>
        ELSE LET first == CHOOSE i \in inked : \A j \in inked : i <= j
                 last  == CHOOSE i \in inked : \A j \in inked : j <= i
             IN  [i \in 1..(last - first + 1) |-> text[first + i - 1]]

\* JSON.parse(new TextDecoder().decode(bytes)) on texts made of the
\* characters "{" (123), "}" (125), "1" (49) and the space (32): the texts
\* JSON accepts are a number or an empty object, with spaces around
JsonParse(text) ==
    LET core == Trimmed(text)
    IN  IF core # <<>> /\ \A i \in 1..Len(core) : core[i] = 49
        THEN Returned([json |-> "number", digits |-> Len(core)])
        ELSE IF /\ Len(core) >= 2
                /\ core[1] = 123
                /\ core[Len(core)] = 125
                /\ \A i \in 2..(Len(core) - 1) : core[i] = 32
        THEN Returned([json |-> "object", digits |-> 0])
        ELSE Thrown("SyntaxError", Absent)

\* the binary chunk of _parseGLB, read when the JSON chunk ends before the
\* declared length
BinaryChunk(buffer, offset, length) ==
    IF ~(offset < length) THEN Returned(<<>>)
    ELSE IF offset + 4 > Len(buffer) THEN Thrown("RangeError", Absent)
    ELSE IF offset + 8 + GetUint32(buffer, offset) > Len(buffer)
         THEN Thrown("RangeError", Absent)
    ELSE Returned(<<BytesAt(buffer, offset + 8, GetUint32(buffer, offset))>>)

\* mutant: the magic is not checked
ParseGLBUnchecked(buffer, baseUrl) ==
    IF Len(buffer) < 16 THEN Thrown("RangeError", Absent)
    ELSE IF 20 + GetUint32(buffer, 12) > Len(buffer)
         THEN Thrown("RangeError", Absent)
    ELSE LET gltf == JsonParse(BytesAt(buffer, 20, GetUint32(buffer, 12)))
             bin  == BinaryChunk(buffer, 20 + GetUint32(buffer, 12),
                                 GetUint32(buffer, 8))
         IN  IF ~gltf.ok THEN gltf
             ELSE IF ~bin.ok THEN bin
             ELSE Returned([gltf |-> gltf.value, buffers |-> bin.value,
                            baseUrl |-> baseUrl])

\* GLTFLoader._parseGLB(buffer, baseUrl): a read outside the buffer throws
\* a RangeError, JSON.parse a SyntaxError
ParseGLB(buffer, baseUrl) ==
    IF Len(buffer) < 4 THEN Thrown("RangeError", Absent)
    ELSE IF GetUint32(buffer, 0) # GLB_MAGIC
         THEN Thrown("Invalid GLB file", Absent)
    ELSE IF Len(buffer) < 16 THEN Thrown("RangeError", Absent)
    ELSE IF 20 + GetUint32(buffer, 12) > Len(buffer)
         THEN Thrown("RangeError", Absent)
    ELSE LET gltf == JsonParse(BytesAt(buffer, 20, GetUint32(buffer, 12)))
             bin  == BinaryChunk(buffer, 20 + GetUint32(buffer, 12),
                                 GetUint32(buffer, 8))
         IN  IF ~gltf.ok THEN gltf
             ELSE IF ~bin.ok THEN bin
             ELSE Returned([gltf |-> gltf.value, buffers |-> bin.value,
                            baseUrl |-> baseUrl])

\* the four bytes of a 32-bit value, least significant first
Uint32Bytes(v) ==
    <<v % 256, (v \div 256) % 256, (v \div 65536) % 256,
      (v \div 16777216) % 256>>

MagicBytes ==
    { <<103, 108, 84, 70>>, <<70, 84, 108, 103>>, <<103, 108, 84, 71>>,
      <<0, 0, 0, 0>> }

JsonTexts ==
    { <<123, 125>>, <<123, 32, 125>>, <<32, 49>>, <<123>>, <<125, 123>>,
      <<>>, <<123, 49, 125>> }

BinaryChunks == { <<>>, Uint32Bytes(4) \o <<0, 78, 73, 66>> \o <<9, 8, 7, 6>> }

\* a container: header (magic, version 2, declared length), a JSON chunk
\* whose declared length is off by jsonOff, a binary chunk or none; the
\* declared length is off by lengthOff and the file is cut after cut bytes
Container(magic, text, jsonOff, bin, lengthOff, cut) ==
    LET chunks == Uint32Bytes(Len(text) + jsonOff) \o <<78, 79, 83, 74>>
                      \o text \o bin
        whole  == magic \o Uint32Bytes(2)
                      \o Uint32Bytes(12 + Len(chunks) + lengthOff) \o chunks
    IN  SubSeq(whole, 1, IF cut < Len(whole) THEN cut ELSE Len(whole))

Containers ==
    { Container(magic, text, jsonOff, bin, lengthOff, cut) :
          magic \in MagicBytes, text \in JsonTexts, jsonOff \in {0, 1},
          bin \in BinaryChunks, lengthOff \in {0, 4}, cut \in {3, 14, 64} }

InitGLB ==
    /\ IdleApplication
    /\ call \in [op : {"parseGLB"}, buffer : Containers, baseUrl : {"models/"}]
    /\ result = <<>>

\* gltfLoader._parseGLB(buffer, baseUrl)
ParseGLBCall ==
    /\ result = <<>>
    /\ result' = <<ParseGLB(call.buffer, call.baseUrl)>>
    /\ UNCHANGED <<call, models, loadedFrom, isRunning, startTime, now,
                   pending, normalMatrix, time, draws, frames>>

NextGLB == ParseGLBCall

SpecGLB == InitGLB /\ [][NextGLB]_vars

\* the first four bytes of the buffer are "glTF"
HasMagic(buffer) ==
    /\ Len(buffer) >= 4
    /\ SubSeq(buffer, 1, 4) = <<103, 108, 84, 70>>

\* the buffer holds the whole JSON chunk its header declares
HasJsonChunk(buffer) ==
    /\ Len(buffer) >= 20
    /\ Len(buffer) >= 20 + GetUint32(buffer, 12)

\* C14: parsing a container whose first four bytes are not the magic, or
\* whose JSON chunk does not parse, throws and yields neither document nor
\* buffers; a wrong magic is reported as such whatever follows it, so it is
\* checked before any chunk is read; a container that parses has the magic
\* and yields the document of its JSON chunk.
C14_ParseGLBFails ==
    result # <<>> =>
        LET buffer == call.buffer
            r      == result[1]
        IN  /\ ~HasMagic(buffer) => (~r.ok /\ r.value = Absent)
            /\ (Len(buffer) >= 4 /\ ~HasMagic(buffer))
                   => r.error = "Invalid GLB file"
            /\ (HasJsonChunk(buffer)
                /\ ~JsonParse(BytesAt(buffer, 20, GetUint32(buffer, 12))).ok)
                   => (~r.ok /\ r.value = Absent)
            /\ r.ok =>
                   /\ HasMagic(buffer)
                   /\ HasJsonChunk(buffer)
                   /\ r.value.gltf
                          = JsonParse(BytesAt(buffer, 20,
                                              GetUint32(buffer, 12))).value

\* a container with a wrong magic whose chunks would parse
C14_Witness ==
    /\ result # <<>>
    /\ ~HasMagic(call.buffer)
    /\ HasJsonChunk(call.buffer)
    /\ ParseGLBUnchecked(call.buffer, call.baseUrl).ok
    /\ result[1].error = "Invalid GLB file"

\* C14: a container with the magic whose JSON chunk does not parse
C14_WitnessJson ==
    /\ result # <<>>
    /\ HasMagic(call.buffer)
    /\ ~result[1].ok
    /\ result[1].error = "SyntaxError"

(***************************************************************************)
(* GLTFLoader.getAccessorData on its own                                   *)
(***************************************************************************)
COMPONENT_TYPES == {5120, 5121, 5122, 5123, 5125, 5126}

\* COMPONENT_TYPE_ARRAYS[componentType].BYTES_PER_ELEMENT: Int8Array,
\* Uint8Array, Int16Array, Uint16Array, Uint32Array, Float32Array
BYTES_PER_ELEMENT(componentType) ==
    CASE componentType = 5120 -> 1
      [] componentType = 5121 -> 1
      [] componentType = 5122 -> 2
      [] componentType = 5123 -> 2
      [] componentType = 5125 -> 4
      [] componentType = 5126 -> 4

TYPE_COMPONENTS(type) ==
    CASE type = "SCALAR" -> 1
      [] type = "VEC2" -> 2
      [] type = "VEC3" -> 3
      [] type = "VEC4" -> 4
      [] type = "MAT2" -> 4
      [] type = "MAT3" -> 9
      [] type = "MAT4" -> 16

\* the unsigned value of size bytes at byteOffset, least significant first
RECURSIVE LittleEndian(_, _, _)
LittleEndian(bytes, byteOffset, size) ==
    IF size = 0 THEN 0
    ELSE bytes[byteOffset + 1]
             + 256 * LittleEndian(bytes, byteOffset + 1, size - 1)

\* a 32-bit pattern as its high and its low 16 bits
Bits32(bytes, byteOffset) ==
    <<LittleEndian(bytes, byteOffset + 2, 2), LittleEndian(bytes, byteOffset, 2)>>

\* the element of a typed array of the component type that lies at
\* byteOffset of its buffer; a 32-bit unsigned integer and a float are
\* given by their bit pattern
ReadElement(componentType, bytes, byteOffset) ==
    LET u == LittleEndian(bytes, byteOffset, BYTES_PER_ELEMENT(componentType))
    IN  CASE componentType = 5120 -> IF u >= 128 THEN u - 256 ELSE u
          [] componentType = 5121 -> u
          [] componentType = 5122 -> IF u >= 32768 THEN u - 65536 ELSE u
          [] componentType = 5123 -> u
          [] OTHER -> Bits32(bytes, byteOffset)

\* the branches of _extractInterleavedData: getFloat32, getUint16,
\* getUint32 and getUint8; for Int8Array and Int16Array no branch is taken
\* and the element of the fresh result array stays 0
ExtractComponent(componentType, bytes, byteOffset) ==
    CASE componentType = 5126 -> Bits32(bytes, byteOffset)
      [] componentType = 5123 -> LittleEndian(bytes, byteOffset, 2)
      [] componentType = 5125 -> Bits32(bytes, byteOffset)
      [] componentType = 5121 -> LittleEndian(bytes, byteOffset, 1)
      [] OTHER -> 0

\* GLTFLoader._extractInterleavedData(binData, byteOffset, count,
\* components, byteStride, TypedArray); a DataView that reaches outside
\* binData.buffer throws a RangeError
ExtractInterleavedData(binData, byteOffset, count, components, byteStride, componentType) ==
    LET elementSize == BYTES_PER_ELEMENT(componentType)
        Source(k)   == binData.byteOffset + byteOffset
                           + ((k - 1) \div components) * byteStride
                           + ((k - 1) % components) * elementSize
    IN  IF \E k \in 1..(count * components) :
               Source(k) + elementSize > Len(binData.buffer)
        THEN Thrown("RangeError", Absent)
        ELSE Returned([k \in 1..(count * components) |->
                           ExtractComponent(componentType, binData.buffer,
                                            Source(k))])

\* new TypedArray(buffer, byteOffset, length): the offset must be a
\* multiple of the element size and the view must fit the buffer
TypedArrayView(componentType, buffer, byteOffset, length) ==
    LET elementSize == BYTES_PER_ELEMENT(componentType)
    IN  IF byteOffset % elementSize # 0 THEN Thrown("RangeError", Absent)
        ELSE IF byteOffset + length * elementSize > Len(buffer)
             THEN Thrown("RangeError", Absent)
        ELSE Returned([k \in 1..length |->
                           ReadElement(componentType, buffer,
                                       byteOffset + (k - 1) * elementSize)])

\* GLTFLoader.getAccessorData(gltf, buffers, accessorIndex); byteOffset,
\* byteStride and buffer that the document leaves out are 0 (Undefined)
GetAccessorData(gltf, buffers, accessorIndex) ==
    LET accessor   == gltf.accessors[accessorIndex]
        bufferView == gltf.bufferViews[accessor.bufferView]
        binData    == buffers[IF bufferView.buffer = Undefined THEN 1
                              ELSE bufferView.buffer]
        byteOffset == bufferView.byteOffset + accessor.byteOffset
        components == TYPE_COMPONENTS(accessor.type)
        byteStride == bufferView.byteStride
    IN  IF /\ byteStride # 0
           /\ byteStride # components * BYTES_PER_ELEMENT(accessor.componentType)
        THEN ExtractInterleavedData(binData, byteOffset, accessor.count,
                                    components, byteStride,
                                    accessor.componentType)
        ELSE TypedArrayView(accessor.componentType, binData.buffer,
                            binData.byteOffset + byteOffset,
                            accessor.count * components)

\* the bytes of the one ArrayBuffer the accessors read
AccessorBuffer ==
    <<1, 255, 128, 2, 0, 127, 200, 3, 4, 250, 5, 6,
      7, 129, 9, 10, 11, 12, 13, 14, 15, 16, 17, 18>>

\* the document and the buffers of a call
AccessorDocument(c) ==
    [accessors   |-> <<[bufferView |-> 1, byteOffset |-> c.accessorOffset,
                        componentType |-> c.componentType, type |-> c.type,
                        count |-> c.count]>>,
     bufferViews |-> <<[buffer |-> Undefined, byteOffset |-> c.viewOffset,
                        byteStride |-> c.byteStride]>>]

AccessorBuffers(c) == <<[buffer |-> AccessorBuffer, byteOffset |-> c.binOffset]>>

InitAccessor ==
    /\ IdleApplication
    /\ call \in [op : {"getAccessorData", "_extractInterleavedData"},
                 componentType : COMPONENT_TYPES,
                 type : {"SCALAR", "VEC2"},
                 count : 1..MaxCount,
                 accessorOffset : {0, 1, 2},
                 viewOffset : {0, 4},
                 byteStride : {0, 1, 2, 4, 8},
                 binOffset : {0, 4}]
    /\ result = <<>>

\* GLTFLoader.getAccessorData(gltf, buffers, 0)
GetAccessorDataCall ==
    /\ result = <<>>
    /\ call.op = "getAccessorData"
    /\ result' = <<GetAccessorData(AccessorDocument(call),
                                   AccessorBuffers(call), 1)>>
    /\ UNCHANGED <<call, models, loadedFrom, isRunning, startTime, now,
                   pending, normalMatrix, time, draws, frames>>

\* GLTFLoader._extractInterleavedData called with the arguments
\* getAccessorData derives from the document
ExtractInterleavedDataCall ==
    /\ result = <<>>
    /\ call.op = "_extractInterleavedData"
    /\ result' = <<ExtractInterleavedData(
                       AccessorBuffers(call)[1],
                       call.viewOffset + call.accessorOffset, call.count,
                       TYPE_COMPONENTS(call.type), call.byteStride,
                       call.componentType)>>
    /\ UNCHANGED <<call, models, loadedFrom, isRunning, startTime, now,
                   pending, normalMatrix, time, draws, frames>>

NextAccessor == GetAccessorDataCall \/ ExtractInterleavedDataCall

SpecAccessor == InitAccessor /\ [][NextAccessor]_vars

\* the tightly packed size of an element of the call's accessor
PackedSize(c) == TYPE_COMPONENTS(c.type) * BYTES_PER_ELEMENT(c.componentType)

\* the byte at which the call's accessor starts in the buffer
BaseOffset(c) == c.binOffset + c.viewOffset + c.accessorOffset

\* the values the accessor describes: component j of element i is stored
\* at BaseOffset + i * stride + j * componentSize
Described(c, stride) ==
    [k \in 1..(c.count * TYPE_COMPONENTS(c.type)) |->
         ReadElement(c.componentType, AccessorBuffer,
                     BaseOffset(c)
                         + ((k - 1) \div TYPE_COMPONENTS(c.type)) * stride
                         + ((k - 1) % TYPE_COMPONENTS(c.type))
                               * BYTES_PER_ELEMENT(c.componentType))]

\* C15: getAccessorData returns count * components values, and with a
\* stride other than the packed size component j of element i is the value
\* stored at baseOffset + i * stride + j * componentSize, for each of the
\* six component types.
C15_Deinterleaved ==
    (result # <<>> /\ call.op = "getAccessorData" /\ result[1].ok) =>
        /\ Len(result[1].value) = call.count * TYPE_COMPONENTS(call.type)
        /\ (call.byteStride # 0 /\ call.byteStride # PackedSize(call))
               => result[1].value = Described(call, call.byteStride)

\* C15: the same for the four types _extractInterleavedData has a branch
\* for, and for packed accessors of all six
C15_DeinterleavedBranched ==
    (result # <<>> /\ call.op = "getAccessorData" /\ result[1].ok) =>
        /\ Len(result[1].value) = call.count * TYPE_COMPONENTS(call.type)
        /\ (/\ call.byteStride # 0
            /\ call.byteStride # PackedSize(call)
            /\ call.componentType \notin {5120, 5122})
               => result[1].value = Described(call, call.byteStride)
        /\ (call.byteStride = 0 \/ call.byteStride = PackedSize(call))
               => result[1].value = Described(call, PackedSize(call))

\* C15: an interleaved accessor of signed 16-bit components was read
C15_SignedInterleaved ==
    /\ result # <<>>
    /\ call.op = "getAccessorData"
    /\ call.componentType = 5122
    /\ call.byteStride = 8
    /\ result[1].ok

\* C16: for an accessor whose stride is the packed size, at an offset both
\* paths can read, _extractInterleavedData yields the array the typed-array
\* view of getAccessorData yields, for each of the six component types.
C16_PathsAgree ==
    (/\ result # <<>>
     /\ call.op = "_extractInterleavedData"
     /\ call.byteStride = PackedSize(call)
     /\ result[1].ok
     /\ GetAccessorData(AccessorDocument(call), AccessorBuffers(call), 1).ok)
        => result[1]
               = GetAccessorData(AccessorDocument(call),
                                 AccessorBuffers(call), 1)

\* C16: the same for the four types _extractInterleavedData has a branch for
C16_PathsAgreeBranched ==
    (/\ result # <<>>
     /\ call.op = "_extractInterleavedData"
     /\ call.byteStride = PackedSize(call)
     /\ call.componentType \notin {5120, 5122}
     /\ result[1].ok
     /\ GetAccessorData(AccessorDocument(call), AccessorBuffers(call), 1).ok)
        => result[1]
               = GetAccessorData(AccessorDocument(call),
                                 AccessorBuffers(call), 1)

(***************************************************************************)
(* Animation.update and channels without a node                            *)
(***************************************************************************)
\* channel k of the clip targets no node of the list
Dangling(clip, k, nodes) == clip.channels[k].targetNode \notin 1..Len(nodes)

\* channel k is the last channel of the clip on its node field
LastOnField(clip, k) ==
    \A j \in (k + 1)..Len(clip.channels) :
        \/ clip.channels[j].targetNode # clip.channels[k].targetNode
        \/ clip.channels[j].targetPath # clip.channels[k].targetPath

\* C17: when the active clip has a channel whose target index designates
\* no node, update still returns: the model has the nodes it had, each
\* field that a channel with a node targets holds the value that channel
\* samples at the wrapped time (the last such channel, when several target
\* the field), and every field no such channel targets is as it was.
C17_DanglingChannelSkipped ==
    LET clip   == models[1].animationSystem.currentAnimation
        before == call.before.nodes
        after  == models[1].nodes
    IN  (/\ call.op = "update"
         /\ \E k \in 1..Len(clip.channels) : Dangling(clip, k, before))
        =>
        /\ Len(after) = Len(before)
        /\ \A k \in 1..Len(clip.channels) :
               (~Dangling(clip, k, before) /\ LastOnField(clip, k)) =>
                   FieldOf(after[clip.channels[k].targetNode],
                           clip.channels[k].targetPath)
                       = FieldOf(ChannelApply(clip.channels[k],
                                     before[clip.channels[k].targetNode],
                                     WrapTime(time, clip.duration)),
                                 clip.channels[k].targetPath)
        /\ \A n \in 1..Len(before) :
               /\ [after[n] EXCEPT !.translation = before[n].translation,
                                   !.rotation = before[n].rotation,
                                   !.scale = before[n].scale] = before[n]
               /\ \A path \in Paths :
                      (\A k \in 1..Len(clip.channels) :
                           \/ clip.channels[k].targetNode # n
                           \/ clip.channels[k].targetPath # path)
                      => FieldOf(after[n], path) = FieldOf(before[n], path)

\* update ran a clip whose second channel has no node and whose third
\* channel moved its node
C17_Witness ==
    LET clip == models[1].animationSystem.currentAnimation
    IN  /\ call.op = "update"
        /\ Len(clip.channels) = 3
        /\ Dangling(clip, 2, call.before.nodes)
        /\ ~Dangling(clip, 3, call.before.nodes)
        /\ FieldOf(models[1].nodes[clip.channels[3].targetNode],
                   clip.channels[3].targetPath)
               # FieldOf(call.before.nodes[clip.channels[3].targetNode],
                         clip.channels[3].targetPath)

(***************************************************************************)
(* MeshFactory._processMaterial on its own, with images that fail to load  *)
(***************************************************************************)
\* what loading the image of a texture does: it succeeds, the image
\* element reports an error (fetch or decode), or the image has neither
\* uri nor buffer view
ImageOutcomes == {"ok", "image error", "Invalid image source in glTF"}

InitMaterial ==
    /\ IdleApplication
    /\ call \in [op : {"processMaterial"},
                 primitive : {NewPrimitive(FALSE, TRUE)},
                 material : {Absent} \cup {<<m>> : m \in Materials},
                 images : [1..4 -> ImageOutcomes]]
    /\ result = <<>>

\* meshFactory._processMaterial(primitive, gltf, buffers, baseUrl,
\* primData, defaultTexture)
ProcessMaterialCall ==
    /\ result = <<>>
    /\ result' = <<ProcessMaterial(call.primitive, call.material, call.images)>>
    /\ UNCHANGED <<call, models, loadedFrom, isRunning, startTime, now,
                   pending, normalMatrix, time, draws, frames>>

NextMaterial == ProcessMaterialCall

SpecMaterial == InitMaterial /\ [][NextMaterial]_vars

\* the material names a texture for the slot and its image does not load
SlotFails(c, textureIndex) ==
    /\ c.material # Absent
    /\ textureIndex # Undefined
    /\ c.images[textureIndex] # "ok"

\* C18: when the image of a texture of the material does not load, the
\* call still returns a primitive, and that primitive has the default
\* texture in the slot and the slot's presence flag false.
C18_TextureFallback ==
    (result # <<>> /\ call.material # Absent) =>
        LET m == call.material[1]
            r == result[1]
        IN  /\ r.ok
            /\ SlotFails(call, m.baseColorTexture) =>
                   /\ r.value.texture = DefaultTexture
                   /\ ~r.value.hasTexture
            /\ SlotFails(call, m.metallicRoughnessTexture) =>
                   /\ r.value.metallicRoughnessTexture = DefaultTexture
                   /\ ~r.value.hasMetallicRoughnessTexture
            /\ SlotFails(call, m.emissiveTexture) =>
                   /\ r.value.emissiveTexture = DefaultTexture
                   /\ ~r.value.hasEmissiveTexture
            /\ SlotFails(call, m.normalTexture) =>
                   /\ r.value.normalTexture = DefaultTexture
                   /\ ~r.value.hasNormalTexture

\* C18: what the code does: the call returns exactly when every texture the
\* material names loads, and otherwise throws the error of the first one
\* that does not
C18_TextureFailureThrows ==
    (result # <<>> /\ call.material # Absent) =>
        LET m     == call.material[1]
            slots == <<m.baseColorTexture, m.metallicRoughnessTexture,
                       m.emissiveTexture, m.normalTexture>>
            bad   == {k \in 1..4 : SlotFails(call, slots[k])}
        IN  /\ result[1].ok <=> bad = {}
            /\ bad # {} =>
                   result[1].error
                       = call.images[slots[CHOOSE k \in bad :
                                               \A j \in bad : k <= j]]

(***************************************************************************)
(* GLTFLoader.load on its own, over a network whose fetches can fail       *)
(***************************************************************************)
\* what a fetch does: the response is ok, the response is an HTTP error
\* (response.ok false, the body is the server's error page), or the fetch
\* rejects (no response)
FetchOutcomes == {"ok", "http error", "network error"}

\* the body of an HTTP error response
ErrorPage == <<60, 52, 48, 52, 62>>

\* the contents of the binary files of the server
BufferFile(uri) == IF uri = "a.bin" THEN <<1, 2, 3>> ELSE <<4, 5>>

\* fetch(url) followed by response.arrayBuffer() for a binary file
FetchedBytes(status, uri) ==
    IF status[uri] = "network error" THEN Thrown("TypeError", Absent)
    ELSE IF status[uri] = "ok" THEN Returned(BufferFile(uri))
    ELSE Returned(ErrorPage)

RECURSIVE ParseGLTFBuffers(_, _, _, _)

\* the buffer loop of _parseGLTF from buffer k on: the response of a
\* buffer's fetch is read whatever its status; a buffer without uri ("")
\* is passed over
ParseGLTFBuffers(gltfBuffers, k, status, buffers) ==
    IF k > Len(gltfBuffers) THEN Returned(buffers)
    ELSE IF gltfBuffers[k] = "" 
         THEN ParseGLTFBuffers(gltfBuffers, k + 1, status, buffers)
         ELSE LET body == FetchedBytes(status, gltfBuffers[k])
              IN  IF ~body.ok THEN body
                  ELSE ParseGLTFBuffers(gltfBuffers, k + 1, status,
                                        Append(buffers, body.value))

\* GLTFLoader._parseGLTF(gltf, baseUrl)
ParseGLTF(gltf, baseUrl, status) ==
    LET buffers == ParseGLTFBuffers(IF gltf.hasBuffers THEN gltf.buffers
                                    ELSE <<>>, 1, status, <<>>)
    IN  IF ~buffers.ok THEN buffers
        ELSE Returned([gltf |-> gltf, buffers |-> buffers.value,
                       baseUrl |-> baseUrl])

\* GLTFLoader.load(url): url is given as directory, name and extension;
\* json is the document the server holds for a .gltf url (parses tells
\* whether response.json() accepts it), glb the file it holds for a .glb url
GLTFLoaderLoad(url, status, json, glb) ==
    IF status["asset"] = "network error" THEN Thrown("TypeError", Absent)
    ELSE IF status["asset"] # "ok" THEN Thrown("Failed to fetch", Absent)
    ELSE IF url.ext = ".glb" THEN ParseGLB(glb, url.dir)
    ELSE IF ~json.parses THEN Thrown("SyntaxError", Absent)
    ELSE ParseGLTF(json, url.dir, status)

\* the documents the server can hold
GLTFDocuments ==
    { [parses |-> TRUE, hasBuffers |-> TRUE, buffers |-> <<"a.bin">>],
      [parses |-> TRUE, hasBuffers |-> TRUE, buffers |-> <<"a.bin", "", "b.bin">>],
      [parses |-> TRUE, hasBuffers |-> FALSE, buffers |-> <<>>],
      [parses |-> FALSE, hasBuffers |-> FALSE, buffers |-> <<>>] }

\* the containers the server can hold
GLBFiles ==
    { Container(<<103, 108, 84, 70>>, <<123, 125>>, 0,
                Uint32Bytes(4) \o <<0, 78, 73, 66>> \o <<9, 8, 7, 6>>, 0, 64),
      Container(<<0, 0, 0, 0>>, <<123, 125>>, 0, <<>>, 0, 64) }

InitLoad ==
    /\ IdleApplication
    /\ call \in [op : {"load"},
                 url : [dir : {"models/"}, name : {"a"}, ext : {".gltf", ".glb"}],
                 status : [{"asset", "a.bin", "b.bin"} -> FetchOutcomes],
                 json : GLTFDocuments,
                 glb : GLBFiles]
    /\ result = <<>>

\* gltfLoader.load(url)
GLTFLoaderLoadCall ==
    /\ result = <<>>
    /\ result' = <<GLTFLoaderLoad(call.url, call.status, call.json, call.glb)>>
    /\ UNCHANGED <<call, models, loadedFrom, isRunning, startTime, now,
                   pending, normalMatrix, time, draws, frames>>

NextLoad == GLTFLoaderLoadCall

SpecLoad == InitLoad /\ [][NextLoad]_vars

\* the external buffers load fetches for the call: those of the document
\* of a .gltf asset that was fetched and parsed
FetchedBuffers(c) ==
    IF c.status["asset"] = "ok" /\ c.url.ext = ".gltf" /\ c.json.parses
    THEN {k \in 1..Len(c.json.buffers) : c.json.buffers[k] # ""}
    ELSE {}

\* C19: load throws when the fetch of the asset fails and when the fetch
\* of an external buffer of its document fails, be it by an HTTP error or
\* by a network error; what it returns holds no buffer taken from a failed
\* response.
C19_FetchFailureFails ==
    result # <<>> =>
        /\ call.status["asset"] # "ok" => ~result[1].ok
        /\ (\E k \in FetchedBuffers(call) :
                call.status[call.json.buffers[k]] # "ok") => ~result[1].ok
        /\ result[1].ok =>
               \A i \in 1..Len(result[1].value.buffers) :
                   result[1].value.buffers[i] # ErrorPage

\* C19: what the code does: load throws when the fetch of the asset fails
\* in either way and when the fetch of an external buffer rejects; the body
\* of an HTTP error response to a buffer's fetch becomes that buffer
C19_BufferStatusIgnored ==
    result # <<>> =>
        /\ call.status["asset"] # "ok" => ~result[1].ok
        /\ (\E k \in FetchedBuffers(call) :
                call.status[call.json.buffers[k]] = "network error")
               => ~result[1].ok
        /\ (/\ FetchedBuffers(call) # {}
            /\ \A k \in FetchedBuffers(call) :
                   call.status[call.json.buffers[k]] = "http error")
               => /\ result[1].ok
                  /\ \A i \in 1..Len(result[1].value.buffers) :
                         result[1].value.buffers[i] = ErrorPage

(***************************************************************************)
(* Application.initialize: the models are loaded one after the other       *)
(***************************************************************************)
\* where ModelLoader.load can fail: nowhere, in gltfLoader.load (before the
\* Model is created), or in meshFactory.createFromGLTF (after it)
LoadFailures == {"none", "fetch", "mesh"}

\* the Model under construction when createFromGLTF throws for the first
\* mesh: created, configured, with its node hierarchy, and nothing else
PartialModel(config, gltf) ==
    [LoadModel(config, gltf) EXCEPT
         !.nodes = NodeHierarchyFromGLTF(gltf).nodes,
         !.meshes = <<>>,
         !.skins = <<>>,
         !.animationSystem = NewAnimationSystem]

\* ModelLoader.load(config): nothing in it catches
ModelLoaderLoad(config, gltf, failure) ==
    CASE failure = "fetch" -> Thrown("Failed to fetch", Absent)
      [] failure = "mesh" -> Thrown("image error", <<PartialModel(config, gltf)>>)
      [] OTHER -> Returned(LoadModel(config, gltf))

\* mutant: the model under construction is added when the load fails
PushLoadedKeepPartial(sceneModels, loaded) ==
    IF loaded.ok THEN Append(sceneModels, loaded.value)
    ELSE sceneModels \o loaded.value

\* const model = await modelLoader.load(config);
\* this.scene.models.push(model): the push is not reached when load throws
PushLoaded(sceneModels, loaded) ==
    IF loaded.ok THEN Append(sceneModels, loaded.value)
    ELSE sceneModels

\* main() has created the Application and initialize() has reached its
\* model loop; result is the list of errors main has reported
InitInitialize ==
    /\ NewApplication
    /\ now = 0
    /\ models = <<>>
    /\ loadedFrom = <<>>
    /\ call \in [op : {"initialize"},
                 configs : [1..MaxConfigs -> Assets],
                 next : {1},
                 attempts : {<<>>},
                 phase : {"loading"}]
    /\ result = <<>>

\* one turn of the model loop of initialize; when load throws, initialize
\* rejects and the catch of main reports the error
LoadNextModel ==
    \E failure \in LoadFailures :
        LET asset  == call.configs[call.next]
            loaded == ModelLoaderLoad(asset[1], asset[2], failure)
        IN  /\ call.phase = "loading"
            /\ call.next <= Len(call.configs)
            /\ models' = PushLoaded(models, loaded)
            /\ loadedFrom' = IF loaded.ok THEN Append(loadedFrom, asset)
                             ELSE loadedFrom
            /\ result' = IF loaded.ok THEN result
                         ELSE Append(result, loaded.error)
            /\ call' = [call EXCEPT
                            !.attempts = Append(@, call.next),
                            !.next = IF loaded.ok THEN @ + 1 ELSE @,
                            !.phase = IF loaded.ok THEN @ ELSE "failed"]
            /\ UNCHANGED <<isRunning, startTime, now, pending, normalMatrix,
                           time, draws, frames>>

\* the model loop is over: initialize resolves and main calls app.start()
InitializeDone ==
    /\ call.phase = "loading"
    /\ call.next > Len(call.configs)
    /\ isRunning' = TRUE
    /\ startTime' = now
    /\ RenderLoop(now, pending)
    /\ call' = [call EXCEPT !.phase = "started"]
    /\ UNCHANGED <<now, loadedFrom, result>>

NextInitialize == LoadNextModel \/ InitializeDone

SpecInitialize == InitInitialize /\ [][NextInitialize]_vars

\* C20: when the load of a model has failed, the scene holds the models
\* loaded before it, each as its load built it, and nothing else (no model
\* for the failed load); the failure has been reported once, no load was
\* attempted twice or after the failure, and the application is not running.
C20_FailedLoadIsolated ==
    call.phase = "failed" =>
        /\ Len(models) = call.next - 1
        /\ \A m \in 1..Len(models) :
               models[m] = LoadModel(call.configs[m][1], call.configs[m][2])
        /\ Len(result) = 1
        /\ call.attempts = [i \in 1..call.next |-> i]
        /\ ~isRunning
        /\ ~frames

\* C20: once a load has failed no further step is taken
C20_NoRetry ==
    [][call.phase = "failed" => UNCHANGED vars]_vars

\* the third load failed while its Model was under construction, after two
\* models had been loaded
C20_Witness ==
    /\ call.phase = "failed"
    /\ Len(models) = 2
    /\ call.next = 3
    /\ result = <<"image error">>

(***************************************************************************)
(* TextureLoader and the model loads that share it                         *)
(***************************************************************************)
\* the documents a load can read: the directory of the asset (baseUrl) and
\* the image of each of its textures; the first two lie in one directory
TextureDocuments ==
    { [baseUrl |-> "m/", images |-> <<"a0.png", "a1.png">>],
      [baseUrl |-> "m/", images |-> <<"b0.png">>],
      [baseUrl |-> "n/", images |-> <<"c0.png">>] }

\* the cache keys `${baseUrl}:${textureIndex}` of loadFromGLTF
CacheKeys == {"m/", "n/"} \X {1, 2}

\* the cacheKey of loadFromGLTF(gltf, buffers, baseUrl, textureIndex)
CacheKey(baseUrl, textureIndex) == <<baseUrl, textureIndex>>

\* new TextureLoader(gpu): an empty cache (0: the key has no entry) and no
\* texture created; a texture is known by the order of its creation, and
\* textures[id] is the image it was created from
NewTextureLoader == [cache |-> [key \in CacheKeys |-> 0], textures |-> <<>>]

\* a call of modelLoader.load that has not begun
NewLoad(doc) == [doc |-> doc, phase |-> "new", next |-> 1, got |-> <<>>]

\* the load has received texture id for its next texture index
Received(load, id) ==
    [load EXCEPT !.got = Append(@, id),
                 !.next = @ + 1,
                 !.phase = IF load.next = Len(load.doc.images) THEN "done"
                           ELSE "textures"]

\* this.cache.set(cacheKey, texture)
CacheSet(cache, key, id) == [cache EXCEPT ![key] = id]

InitTexture ==
    /\ IdleApplication
    /\ call \in [op : {"none"},
                 loader : {NewTextureLoader},
                 loads : {<<NewLoad(a), NewLoad(b)>> :
                              a \in TextureDocuments, b \in TextureDocuments}]
    /\ result = <<>>

\* the steps below leave the application alone
TextureStep(op, loader, loads, returned) ==
    /\ call' = [op |-> op, loader |-> loader, loads |-> loads]
    /\ result' = returned
    /\ UNCHANGED <<models, loadedFrom, isRunning, startTime, now, pending,
                   normalMatrix, time, draws, frames>>

\* modelLoader.load(config) up to its first await, gltfLoader.load
LoadBegin ==
    \E l \in 1..2 :
        /\ call.loads[l].phase = "new"
        /\ TextureStep("load", call.loader,
                       [call.loads EXCEPT ![l].phase = "fetching"], result)

\* gltfLoader.load has resolved; the load goes on to its meshes
LoadFetched ==
    \E l \in 1..2 :
        /\ call.loads[l].phase = "fetching"
        /\ TextureStep("fetched", call.loader,
                       [call.loads EXCEPT ![l].phase = "textures"], result)

\* textureLoader.loadFromGLTF up to its await: a cached texture is
\* returned, otherwise the image is requested
LoadFromGLTFBegin ==
    \E l \in 1..2 :
        LET load == call.loads[l]
            key  == CacheKey(load.doc.baseUrl, load.next)
        IN  /\ load.phase = "textures"
            /\ IF call.loader.cache[key] # 0
               THEN TextureStep("loadFromGLTF", call.loader,
                        [call.loads EXCEPT
                             ![l] = Received(load, call.loader.cache[key])],
                        Append(result, [key |-> key,
                                        texture |-> call.loader.cache[key]]))
               ELSE TextureStep("loadFromGLTF", call.loader,
                        [call.loads EXCEPT ![l].phase = "awaiting image"],
                        result)

\* the image has loaded: loadFromGLTF creates the texture, stores it under
\* the key and returns it
LoadFromGLTFResume ==
    \E l \in 1..2 :
        LET load == call.loads[l]
            key  == CacheKey(load.doc.baseUrl, load.next)
            id   == Len(call.loader.textures) + 1
        IN  /\ load.phase = "awaiting image"
            /\ TextureStep("created",
                   [cache    |-> CacheSet(call.loader.cache, key, id),
                    textures |-> Append(call.loader.textures,
                                        load.doc.images[load.next])],
                   [call.loads EXCEPT ![l] = Received(load, id)],
                   Append(result, [key |-> key, texture |-> id]))

\* the image has failed to load: loadFromGLTF rejects, and with it the load
LoadFromGLTFReject ==
    \E l \in 1..2 :
        /\ call.loads[l].phase = "awaiting image"
        /\ TextureStep("rejected", call.loader,
                       [call.loads EXCEPT ![l].phase = "failed"], result)

\* textureLoader.clearCache()
ClearCache ==
    /\ call.loader.cache # NewTextureLoader.cache
    /\ TextureStep("clearCache",
                   [call.loader EXCEPT !.cache = NewTextureLoader.cache],
                   call.loads, result)

NextTexture ==
    \/ LoadBegin
    \/ LoadFetched
    \/ LoadFromGLTFBegin
    \/ LoadFromGLTFResume
    \/ LoadFromGLTFReject
    \/ ClearCache

SpecTexture == InitTexture /\ [][NextTexture]_vars

\* C21: the texture cache is append-only: no step removes or replaces the
\* entry of a key that has one.
C21_AppendOnly ==
    [][\A key \in CacheKeys :
           call.loader.cache[key] # 0
               => call'.loader.cache[key] = call.loader.cache[key]]_vars

\* C21: every load for a key returns the texture the first load for that
\* key returned
C21_SameTexture ==
    \A i \in 1..Len(result) : \A j \in 1..Len(result) :
        result[i].key = result[j].key => result[i].texture = result[j].texture

\* C21: what the code does: an entry goes away only by clearCache, and it
\* is replaced only when a load for its key that had found the cache empty
\* resumes; a load that finds an entry returns the texture of that entry
C21_ClearedOrRaced ==
    [][/\ \A key \in CacheKeys :
              (/\ call.loader.cache[key] # 0
               /\ call'.loader.cache[key] # call.loader.cache[key])
              => \/ call'.op = "clearCache" /\ call'.loader.cache[key] = 0
                 \/ /\ call'.op = "created"
                    /\ call'.loader.cache[key] = Len(call'.loader.textures)
       /\ (call'.op = "loadFromGLTF" /\ result' # result)
              => result'[Len(result')].texture
                     = call.loader.cache[result'[Len(result')].key]]_vars

\* the images of the textures a load has received
ImagesOf(load) == [i \in 1..Len(load.got) |-> call.loader.textures[load.got[i]]]

\* C22: a load that runs while another load runs or has run yields the
\* textures it yields alone: texture i of its model is made from image i of
\* its own document.
C22_LoadsIndependent ==
    \A l \in 1..2 :
        call.loads[l].phase = "done"
            => ImagesOf(call.loads[l]) = call.loads[l].doc.images

\* C22: the same for loads of documents in different directories, whose
\* cache keys differ
C22_IndependentAcrossDirectories ==
    call.loads[1].doc.baseUrl # call.loads[2].doc.baseUrl =>
        \A l \in 1..2 :
            call.loads[l].phase = "done"
                => ImagesOf(call.loads[l]) = call.loads[l].doc.images

(***************************************************************************)
(* Who writes a node's translation, rotation and scale                     *)
(***************************************************************************)
\* C23: in every step, a model's clips and their keyframe arrays stay as
\* they are and a node keeps everything but its translation, rotation,
\* scale and matrices; a translation, rotation or scale changes only on a
\* node and field that a channel of the model's active clip targets, and
\* then to the value that channel's apply samples at the frame's wrapped
\* time (the last such channel, when several target the field); a channel
\* with another path changes nothing.  So the world-matrix update, the skin
\* update and the draw walk of a frame write no translation, rotation or
\* scale.
C23_OnlyApplyWritesTRS ==
    [][\A m \in 1..Len(models) :
           LET clip   == models[m].animationSystem.currentAnimation
               before == models[m].nodes
               after  == models'[m].nodes
           IN  /\ models'[m].animationSystem = models[m].animationSystem
               /\ Len(after) = Len(before)
               /\ \A n \in 1..Len(before) :
                      /\ [after[n] EXCEPT
                              !.translation = before[n].translation,
                              !.rotation = before[n].rotation,
                              !.scale = before[n].scale,
                              !.matrix = before[n].matrix,
                              !.worldMatrix = before[n].worldMatrix]
                             = before[n]
                      /\ \A path \in Paths :
                             FieldOf(after[n], path) # FieldOf(before[n], path)
                             => \E k \in 1..Len(clip.channels) :
                                    /\ clip.channels[k].targetNode = n
                                    /\ clip.channels[k].targetPath = path
                                    /\ LastOnField(clip, k)
                                    /\ FieldOf(after[n], path)
                                           = FieldOf(
                                                 ChannelApply(clip.channels[k],
                                                     before[n],
                                                     WrapTime(time',
                                                         clip.duration)),
                                                 path)]_vars

\* a frame has run the clip "Walk" of the rig: its translation channel has
\* moved node 2, whose scale is the one it was loaded with, and node 4,
\* which its channel of path "weights" targets, is as it was loaded
C23_Witness ==
    /\ frames
    /\ \E m \in 1..Len(models) :
           LET loaded == LoadModel(loadedFrom[m][1], loadedFrom[m][2])
               clip   == models[m].animationSystem.currentAnimation
           IN  /\ clip.name = "Walk"
               /\ \E k \in 1..Len(clip.channels) :
                      /\ clip.channels[k].targetPath = "weights"
                      /\ clip.channels[k].targetNode = 4
               /\ models[m].nodes[2].translation # loaded.nodes[2].translation
               /\ models[m].nodes[2].scale = loaded.nodes[2].scale
               /\ models[m].nodes[4].translation = loaded.nodes[4].translation
               /\ models[m].nodes[4].rotation = loaded.nodes[4].rotation
               /\ models[m].nodes[4].scale = loaded.nodes[4].scale

(***************************************************************************)
(* Node.fromGLTF on a source matrix, and the matrix recomposed from it     *)
(***************************************************************************)
\* the source matrices: a scale of each axis by a factor of either sign,
\* and a translation
SourceMatrices ==
    { << <<a, 0, tx>>, <<0, c, tz>>, <<0, 0, 1>> >> :
          a \in {0 - 3, 0 - 2, 0 - 1, 1, 2, 3},
          c \in {0 - 3, 0 - 2, 0 - 1, 1, 2, 3},
          tx \in {0 - 1, 0, 2}, tz \in {0, 5} }

InitMatrix ==
    /\ IdleApplication
    /\ call \in [op : {"fromGLTF"}, matrix : SourceMatrices]
    /\ result = <<>>

\* Node.fromGLTF(nodeData, index) for a node given by its matrix, and
\* node.updateLocalMatrix() as the first update of the world matrices
\* calls it
DecomposeRecompose ==
    /\ result = <<>>
    /\ result' = <<NodeUpdateLocalMatrix(
                       NodeFromGLTF(NodeData(<<>>, <<>>, <<>>, call.matrix,
                                             Undefined, Undefined, <<>>)))>>
    /\ UNCHANGED <<call, models, loadedFrom, isRunning, startTime, now,
                   pending, normalMatrix, time, draws, frames>>

NextMatrix == DecomposeRecompose

SpecMatrix == InitMatrix /\ [][NextMatrix]_vars

\* C24: a node built from a source matrix has a unit quaternion as its
\* rotation, and the matrix recomposed from its translation, rotation and
\* scale is the source matrix (exactly, on these integer matrices).
C24_RoundTrip ==
    result # <<>> =>
        /\ QuatDot(result[1].rotation, result[1].rotation) = 1
        /\ result[1].matrix = call.matrix

\* C24: the same for the source matrices of positive determinant, and what
\* a mirroring source matrix recomposes to
C24_RoundTripUnmirrored ==
    result # <<>> =>
        LET a == call.matrix[1][1]
            c == call.matrix[2][2]
        IN  /\ a * c > 0 =>
                   /\ QuatDot(result[1].rotation, result[1].rotation) = 1
                   /\ result[1].matrix = call.matrix
            /\ a * c < 0 =>
                   result[1].matrix
                       = << <<Abs(a), 0, call.matrix[1][3]>>,
                            <<0, Abs(c), call.matrix[2][3]>>,
                            <<0, 0, 1>> >>

(***************************************************************************)
(* The recursive walks of the node graph, on graphs that need not be trees *)
(***************************************************************************)
\* updateRecursive of updateWorldMatrices, traverseRecursive of traverse,
\* traverse of traverseMeshNodes and drawNode of _drawModel have one shape:
\* handle the node, then call yourself for each child index in order.  A
\* walk is run here call by call.  The engine's call stack is finite: a
\* call made with MaxStack calls of the walk on the stack throws a
\* RangeError, which none of the walks catches.
WalkOps == {"updateWorldMatrices", "traverse", "traverseMeshNodes", "_drawModel"}

\* node graphs of three nodes as NodeHierarchy.fromGLTF accepts them: any
\* child lists and root lists, since nothing is validated
ChildLists == {<<>>, <<1>>, <<2>>, <<3>>, <<2, 3>>, <<3, 1>>}

NodeGraphs ==
    [children : [1..3 -> ChildLists], rootNodes : {<<1>>, <<1, 3>>},
     hasMesh : {[n \in 1..3 |-> n # 1]}]

\* mutant: a child that was visited before is not visited again
ChildrenToVisitOnce(graph, n, visits) ==
    SelectSeq(graph.children[n], LAMBDA c : \A i \in 1..Len(visits) : visits[i] # c)

\* for (const childIndex of node.children): every child, whatever was
\* visited before
ChildrenToVisit(graph, n, visits) == graph.children[n]

\* a walk that has not begun
NewWalk(op, graph) ==
    [op |-> op, graph |-> graph, phase |-> "running", root |-> 1,
     stack |-> <<>>, visits |-> <<>>, callbacks |-> <<>>]

\* the walk calls its recursive function for node n
Enter(w, n) ==
    IF Len(w.stack) >= MaxStack
    THEN [w EXCEPT !.phase = "thrown", !.stack = <<>>]
    ELSE [w EXCEPT
              !.stack = Append(@, [node |-> n, next |-> 1,
                                   children |-> ChildrenToVisit(w.graph, n,
                                                    Append(w.visits, n))]),
              !.visits = Append(@, n),
              !.callbacks = IF w.op \in {"traverseMeshNodes", "_drawModel"}
                               /\ ~w.graph.hasMesh[n]
                            THEN @ ELSE Append(@, n)]

InitWalk ==
    /\ IdleApplication
    /\ call \in {NewWalk(op, graph) : op \in WalkOps, graph \in NodeGraphs}
    /\ result = <<>>

WalkStep(w) ==
    /\ call' = w
    /\ result' = IF w.phase = "running" THEN <<>> ELSE <<w.phase>>
    /\ UNCHANGED <<models, loadedFrom, isRunning, startTime, now, pending,
                   normalMatrix, time, draws, frames>>

\* the loop over rootNodes calls the recursive function for the next root
EnterRoot ==
    /\ call.phase = "running"
    /\ call.stack = <<>>
    /\ call.root <= Len(call.graph.rootNodes)
    /\ WalkStep(Enter([call EXCEPT !.root = @ + 1],
                      call.graph.rootNodes[call.root]))

\* the loop over node.children calls the recursive function for the next
\* child
EnterChild ==
    /\ call.phase = "running"
    /\ call.stack # <<>>
    /\ LET top == call.stack[Len(call.stack)]
       IN  /\ top.next <= Len(top.children)
           /\ WalkStep(Enter([call EXCEPT ![("stack")][Len(call.stack)].next = @ + 1],
                             top.children[top.next]))

\* the loop over node.children is over: the recursive function returns
ReturnFromNode ==
    /\ call.phase = "running"
    /\ call.stack # <<>>
    /\ LET top == call.stack[Len(call.stack)]
       IN  /\ top.next > Len(top.children)
           /\ WalkStep([call EXCEPT !.stack = SubSeq(@, 1, Len(@) - 1)])

\* the loop over rootNodes is over: the walk returns
ReturnFromWalk ==
    /\ call.phase = "running"
    /\ call.stack = <<>>
    /\ call.root > Len(call.graph.rootNodes)
    /\ WalkStep([call EXCEPT !.phase = "returned"])

NextWalk == EnterRoot \/ EnterChild \/ ReturnFromNode \/ ReturnFromWalk

SpecWalk == InitWalk /\ [][NextWalk]_vars

\* a walk is never halted from outside
SpecWalkFair == SpecWalk /\ WF_vars(NextWalk)

RECURSIVE DescendantsWithin(_, _, _)
\* the nodes reached from the nodes of set by at most k child links
DescendantsWithin(graph, set, k) ==
    IF k = 0 THEN set
    ELSE DescendantsWithin(graph,
             set \cup {c \in 1..3 : \E n \in set :
                           \E i \in 1..Len(graph.children[n]) :
                               graph.children[n][i] = c},
             k - 1)

\* the nodes a walk from the roots can reach
Reachable(graph) ==
    DescendantsWithin(graph, {graph.rootNodes[i] : i \in 1..Len(graph.rootNodes)}, 3)

\* the proper descendants of node n
Descendants(graph, n) ==
    DescendantsWithin(graph, {graph.children[n][i] :
                                  i \in 1..Len(graph.children[n])}, 3)

\* a reachable node lists itself or one of its ancestors as a child
HasReachableCycle(graph) ==
    \E n \in Reachable(graph) : n \in Descendants(graph, n)

\* the number of ways a walk from the roots comes to node c
Arrivals(graph, c) ==
    Cardinality({i \in 1..Len(graph.rootNodes) : graph.rootNodes[i] = c})
  + Cardinality({<<n, i>> \in Reachable(graph) \X (1..2) :
                     i <= Len(graph.children[n]) /\ graph.children[n][i] = c})

\* the reachable part of the graph is a forest
IsForest(graph) ==
    /\ ~HasReachableCycle(graph)
    /\ \A c \in Reachable(graph) : Arrivals(graph, c) = 1

\* every reachable node was visited once, and the callback ran once for
\* each of those the walk hands to it
VisitedOnce(w) ==
    /\ \A n \in Reachable(w.graph) :
           Cardinality({i \in 1..Len(w.visits) : w.visits[i] = n}) = 1
    /\ Len(w.visits) = Cardinality(Reachable(w.graph))
    /\ w.callbacks
           = SelectSeq(w.visits,
                 LAMBDA n : w.op \in {"updateWorldMatrices", "traverse"}
                            \/ w.graph.hasMesh[n])

C25_WalkEnds == <>(call.phase # "running")

C25_WitnessForest ==
    /\ call.phase = "returned"
    /\ call.graph.rootNodes = <<1, 3>>
    /\ call.graph.children[1] = <<2>>
    /\ IsForest(call.graph)

(***************************************************************************)
(* Sampling a channel of either interpolation mode                         *)
(***************************************************************************)
\* the channel Animation.fromGLTF builds from a sampler of the given
\* interpolation, on the translation or the scale of node 1
ModeChannel(times, targetPath, interpolation) ==
    Channel(1, targetPath, times, [i \in 1..Len(times) |-> KeyValue(i)],
            interpolation)

InitMode ==
    /\ IdleApplication
    /\ call \in [op : {"apply"}, times : KeyTimes, t : 0..(MaxKeyTime + 1),
                 targetPath : {"translation", "scale"},
                 interpolation : {"LINEAR", "STEP"}]
    /\ result = <<>>

\* channel.apply(node, t) on a node at rest
SampleWithMode ==
    /\ result = <<>>
    /\ result' = << ChannelApply(ModeChannel(call.times, call.targetPath,
                                             call.interpolation),
                                 RestNode, call.t) >>
    /\ UNCHANGED <<call, models, loadedFrom, isRunning, startTime, now,
                   pending, normalMatrix, time, draws, frames>>

NextMode == SampleWithMode

SpecMode == InitMode /\ [][NextMode]_vars

\* the sampling time lies strictly between two keyframes
StrictlyBetween(times, t) ==
    \E i \in 1..(Len(times) - 1) : times[i] < t /\ t < times[i + 1]

\* C26: sampled strictly between two keyframes, a step channel writes the
\* earlier keyframe's value unblended and a linear channel writes the
\* blend of the two bracketing values.
C26_ModeDeterminesValue ==
    (result # <<>> /\ StrictlyBetween(call.times, call.t)) =>
        LET kf    == FindKeyframes(call.times, call.t)
            prev  == KeyValue(kf.prevIndex)
            next  == KeyValue(kf.nextIndex)
            value == FieldOf(result[1], call.targetPath)
        IN  /\ call.interpolation = "STEP" => value = prev
            /\ call.interpolation = "LINEAR" =>
                   value = Vec3Lerp(prev, next, kf.factor)

\* C26 (what the code does): the mode recorded on the channel is not
\* consulted; a step channel is blended as a linear one is, and sampled
\* strictly between two keyframes its value is not the earlier keyframe's.
C26_ModeIgnored ==
    result # <<>> =>
        LET kf    == FindKeyframes(call.times, call.t)
            prev  == KeyValue(kf.prevIndex)
            next  == KeyValue(kf.nextIndex)
            value == FieldOf(result[1], call.targetPath)
        IN  /\ value = Vec3Lerp(prev, next, kf.factor)
            /\ StrictlyBetween(call.times, call.t) => value # prev

(***************************************************************************)
(* start(), stop() and the frame callbacks                                 *)
(***************************************************************************)
\* C27: at most one render-loop chain is live: while the application runs
\* there is never more than one pending frame callback, each of which
\* would update, render and request the next frame.
C27_OneLiveChain == isRunning => pending <= 1

\* C27 (what the code does): start() while running schedules nothing and
\* leaves startTime alone, but a frame callback requested before stop() is
\* never cancelled, so a start() that follows stop() before that callback
\* has run adds a second chain to it.
C27_StartWhileRunning ==
    [][(isRunning /\ isRunning') =>
           (startTime' = startTime /\ pending' = pending)]_vars

\* C28: while the application is stopped and stays stopped, no step
\* updates a model, renders or requests a frame callback: a pending
\* callback that runs only returns.
C28_StoppedDoesNothing ==
    [][(~isRunning /\ ~isRunning') =>
           /\ models' = models
           /\ normalMatrix' = normalMatrix
           /\ draws' = draws
           /\ time' = time
           /\ frames' = frames
           /\ pending' <= pending]_vars

\* the application was started and stopped, and the callback that was
\* pending at stop() has run
C28_Witness == ~isRunning /\ frames = TRUE /\ pending = 0

(***************************************************************************)
(* The skinning flag and the model matrix of a draw                        *)
(***************************************************************************)
\* C29: a draw whose skinning flag is 0 carries its node's world matrix as
\* model matrix, and the joint matrices are uploaded exactly for the draws
\* whose skinning flag is 1.
C29_UnskinnedDrawUsesWorld ==
    \A i \in 1..Len(draws) :
        LET d    == draws[i]
            node == models[d.model].nodes[d.node]
        IN  /\ d.hasSkinning = 0 => d.modelMatrix = node.worldMatrix
            /\ d.jointWrite <=> d.hasSkinning = 1

\* C29 (what the code does): the joint matrices are uploaded exactly for
\* the draws whose flag is 1, and a draw whose flag is 0 carries the world
\* matrix unless a primitive of its node's mesh has joint and weight
\* attributes, in which case it carries the identity.
C29_IdentityPerNode ==
    \A i \in 1..Len(draws) :
        LET d    == draws[i]
            node == models[d.model].nodes[d.node]
            mesh == models[d.model].meshes[node.meshIndex]
        IN  /\ d.jointWrite <=> d.hasSkinning = 1
            /\ d.modelMatrix
                   = IF \E k \in 1..Len(mesh.primitives) :
                            mesh.primitives[k].hasSkinning
                     THEN Mat4Create
                     ELSE node.worldMatrix

(***************************************************************************)
(* The buffers list of a loaded document                                   *)
(***************************************************************************)
\* the call loads a .gltf document all of whose fetches succeed
LoadsCleanly(c) ==
    /\ c.url.ext = ".gltf"
    /\ c.json.parses
    /\ c.status["asset"] = "ok"
    /\ \A k \in FetchedBuffers(c) : c.status[c.json.buffers[k]] = "ok"

\* C30: the buffers list load returns is index-aligned with the buffers
\* array of the document: entry k holds the bytes of the document's buffer
\* k, also when some declared buffer has no uri.
C30_BuffersAligned ==
    (result # <<>> /\ LoadsCleanly(call)) =>
        /\ result[1].ok
        /\ \A k \in FetchedBuffers(call) :
               /\ k <= Len(result[1].value.buffers)
               /\ result[1].value.buffers[k] = BufferFile(call.json.buffers[k])

\* C30 (what the code does): the list holds the bytes of the buffers that
\* have a uri, in document order and without gaps: entry j is the j-th
\* buffer with a uri, so every buffer after one without uri is found one
\* place early.
C30_BuffersPacked ==
    (result # <<>> /\ LoadsCleanly(call)) =>
        /\ result[1].ok
        /\ Len(result[1].value.buffers) = Cardinality(FetchedBuffers(call))
        /\ \A k \in FetchedBuffers(call) :
               result[1].value.buffers[Cardinality({j \in FetchedBuffers(call) : j <= k})]
                   = BufferFile(call.json.buffers[k])

====
